---------------------------- MODULE Spec2Model ----------------------------
(***************************************************************************)
(* Model of the request-resolution core of osmmcp: the TTL cache of        *)
(* pkg/cache and the one of pkg/osm, the per-service rate limiters of       *)
(* pkg/osm, the retrying and                                               *)
(* coalescing geocoding executor and the address-resolution pipeline of    *)
(* pkg/tools (geocode.go), the polyline codec of pkg/osm and the start and  *)
(* shutdown of the server of pkg/server.                                   *)
(*                                                                         *)
(* Each component has its own specification (SpecCache, SpecLimiter,       *)
(* SpecTools, Spec, SpecFallback, SpecRank, SpecResolve, SpecPolyline,     *)
(* SpecServer, SpecOsmCache, SpecSweep, SpecFlight);                       *)
(* the variables of the other components stay at their initial values.     *)
(***************************************************************************)
EXTENDS Integers, Sequences, FiniteSets, TLC

VARIABLES
    \* ---- pkg/cache TTLCache --------------------------------------------
    clock,      \* time.Now().UnixNano(), in model ticks
    items,      \* TTLCache.items: key -> Item
    maxItems,   \* TTLCache.maxItems, fixed by NewTTLCache
    getter,     \* the position and locals of a Get call in progress
    lastOp,     \* history: the last step of the cache and its result
    \* ---- one token bucket (golang.org/x/time/rate.Limiter) and its callers --
    ltime,      \* the clock of the limiter, in ticks
    bucket,     \* the rate.Limiter: burst, tokens, last, lastEvent
    waiters,    \* the Wait call of each caller: position, reservation, times
    lastLim,    \* history: the last step of the limiter and its result
    \* ---- the tool handlers and the limiters their requests pass --------
    ttime,      \* the clock of the tool handlers, in milliseconds
    limiters,   \* the *rate.Limiter of client.go and of ratelimit.go, by service
    calls,      \* each tool invocation: position, call site, reservation
    sentLog,    \* history: the HTTP requests sent and the bucket each waited on
    rateLimits, \* history: the limits set for each service by Update*RateLimits
    \* ---- geocodeQuery: cache, singleflight group, withRetry --------------
    geocodeCache,  \* the LRU cache of geocoding results: key -> results
    requestGroup,  \* singleflight.Group: key -> the caller running its call
    gq,            \* each geocodeQuery call: position, locals, result
    ctxDone,       \* whether the context of each caller is done
    \* ---- HandleGeocodeAddress: one resolution --------------------------
    address,       \* the address argument, a sequence of characters
    region,        \* the region argument
    nominatim,     \* the result lists the geocoding service may answer with
    ppc,           \* position of the handler
    uniqueQueries, \* the queries to try, in order
    tried,         \* history: the queries passed to geocodeQuery, in order
    answers,       \* history: how each of them ended
    allResults,    \* the results of the query that succeeded
    output,        \* the tool result
    \* ---- HandleGeocodeAddress / HandleReverseGeocode: invocations -------
    rnow,          \* the wall clock, in hours
    lruCaches,     \* geocodeCache and reverseGeocodeCache: key -> entry
    inv,           \* the invocation in progress: position, locals, history
    \* ---- EncodePolyline / DecodePolyline: one round trip ----------------
    points,        \* the locations to encode, in units of 1e-6 degrees
    encoded,       \* the polyline string, a sequence of byte values
    decoded,       \* the locations decoded from it, in units of 1e-6 degrees
    polyPc,        \* position of the round trip
    \* ---- pkg/server Server: Run, RunWithContext, Shutdown ---------------
    server,        \* the Server: running, stopCh, doneCh, and the context
    spc,           \* position of each goroutine
    \* ---- pkg/osm TTLCache: the map, its RWMutex and the calls ------------
    osm,           \* items, the holders of the lock, the clock, a fatal error
    ocall,         \* each caller's call: position, operation, key, result
    \* ---- pkg/cache TTLCache: one call sequence on two caches ------------
    twin,          \* a cache whose sweep runs and one whose sweep never runs
    \* ---- requestGroup shared by geocodeQuery and HandleReverseGeocode --
    flight         \* the calls in flight by key, and each caller's call

cacheVars == <<clock, items, maxItems, getter, lastOp>>
limVars == <<ltime, bucket, waiters, lastLim>>
toolVars == <<ttime, limiters, calls, sentLog, rateLimits>>
geoVars == <<geocodeCache, requestGroup, gq, ctxDone>>

pipeVars == <<address, region, nominatim, ppc, uniqueQueries, tried, answers,
              allResults, output>>

resVars == <<rnow, lruCaches, inv>>
polyVars == <<points, encoded, decoded, polyPc>>
srvVars == <<server, spc>>
osmVars == <<osm, ocall>>
twinVars == <<twin>>
flightVars == <<flight>>

vars == <<cacheVars, limVars, toolVars, geoVars, pipeVars, resVars, polyVars,
          srvVars, osmVars, twinVars, flightVars>>

nonCacheVars == <<limVars, toolVars, geoVars, pipeVars, resVars,
    polyVars, srvVars, osmVars, twinVars, flightVars>>
nonLimVars == <<cacheVars, toolVars, geoVars, pipeVars, resVars,
    polyVars, srvVars, osmVars, twinVars, flightVars>>
nonToolVars == <<cacheVars, limVars, geoVars, pipeVars, resVars,
    polyVars, srvVars, osmVars, twinVars, flightVars>>
nonGeoVars == <<cacheVars, limVars, toolVars, pipeVars, resVars,
    polyVars, srvVars, osmVars, twinVars, flightVars>>
nonPipeVars == <<cacheVars, limVars, toolVars, geoVars, resVars,
    polyVars, srvVars, osmVars, twinVars, flightVars>>
nonResVars == <<cacheVars, limVars, toolVars, geoVars, pipeVars,
    polyVars, srvVars, osmVars, twinVars, flightVars>>
nonPolyVars == <<cacheVars, limVars, toolVars, geoVars, pipeVars, resVars,
    srvVars, osmVars, twinVars, flightVars>>
nonSrvVars == <<cacheVars, limVars, toolVars, geoVars, pipeVars, resVars,
    polyVars, osmVars, twinVars, flightVars>>
nonOsmVars == <<cacheVars, limVars, toolVars, geoVars, pipeVars, resVars,
    polyVars, srvVars, twinVars, flightVars>>
nonTwinVars == <<cacheVars, limVars, toolVars, geoVars, pipeVars, resVars,
    polyVars, srvVars, osmVars, flightVars>>
nonFlightVars == <<cacheVars, limVars, toolVars, geoVars, pipeVars, resVars,
    polyVars, srvVars, osmVars, twinVars>>

-----------------------------------------------------------------------------
(***************************************************************************)
(* Generic helpers for Go maps.                                            *)
(***************************************************************************)
MapPut(m, k, v) == [x \in (DOMAIN m) \cup {k} |-> IF x = k THEN v ELSE m[x]]

MapDelete(m, S) == [x \in (DOMAIN m) \ S |-> m[x]]

EmptyMap == [x \in {} |-> 0]

-----------------------------------------------------------------------------
(***************************************************************************)
(* pkg/cache: TTLCache                                                     *)
(***************************************************************************)

\* Bounds of the cache model.
MaxClock == 3
MaxTTL == 2

\* The capacities (maxItems) the cache is constructed with: fewer than the keys,
\* so that Sets overflow it.
Capacities == {1, 2}

Keys == {"k1", "k2", "k3"}
Values == {"v1", "v2"}
\* The keys Get is called with: the keys are interchangeable, so one suffices.
GetKeys == {"k1"}
TTLs == {0, 1, MaxTTL}

\* math.MaxInt64 as evictOldest uses it; TLC's integers are 32 bits wide, so the
\* largest TLC integer stands for it (every expiration of the model is below it,
\* as every real expiration is below math.MaxInt64).
MaxInt64 == 2147483647

\* Item.Expired, evaluated at time t.
Expired(item, t) ==
    IF item.Expiration = 0 THEN FALSE ELSE t > item.Expiration

\* The expiration SetWithTTL computes for a ttl at time t.
ExpirationFor(ttl, t) == IF ttl > 0 THEN t + ttl ELSE 0

\* Mutant of EvictionRank: the no-expiration sentinel 0 is compared as it is.
EvictionRankRaw(item) == item.Expiration

\* The sort key evictOldest gives an item: its expiration, math.MaxInt64
\* when it has none.
EvictionRank(item) ==
    IF item.Expiration = 0 THEN MaxInt64 ELSE item.Expiration

\* evictOldest: the sets of keys it may delete from m. sort.Slice is not stable
\* and the map is ranged over in random order, so among equal expirations any
\* may come first.
EvictOldest(m) ==
    LET itemsToRemove == Cardinality(DOMAIN m) - maxItems
    IN  IF itemsToRemove <= 0
        THEN {{}}
        ELSE {R \in SUBSET (DOMAIN m) :
                /\ Cardinality(R) = itemsToRemove
                /\ \A r \in R : \A s \in (DOMAIN m) \ R :
                      EvictionRank(m[r]) <= EvictionRank(m[s])}

NoOp == [op |-> "none"]
GetterIdle == [pc |-> "idle"]

InitCache ==
    /\ clock = 1
    /\ items = EmptyMap
    /\ maxItems \in Capacities
    /\ getter = GetterIdle
    /\ lastOp = NoOp

\* The cache before any call: the state the other specifications keep it in.
CacheUnused ==
    /\ clock = 1
    /\ items = EmptyMap
    /\ maxItems = 1
    /\ getter = GetterIdle
    /\ lastOp = NoOp

\* TTLCache.SetWithTTL (Set is SetWithTTL with the default TTL).
SetWithTTL(key, value, ttl) ==
    LET expiration == ExpirationFor(ttl, clock)
        stored == MapPut(items, key, [Value |-> value, Expiration |-> expiration])
    IN  /\ \E R \in (IF maxItems > 0 /\ Cardinality(DOMAIN stored) > maxItems
                     THEN EvictOldest(stored) ELSE {{}}) :
              /\ items' = MapDelete(stored, R)
              /\ lastOp' = [op |-> "Set", key |-> key, value |-> value, ttl |-> ttl,
                            inserted |-> Cardinality(DOMAIN stored),
                            evicted |-> {stored[r].Expiration : r \in R}]
        /\ UNCHANGED <<clock, maxItems, getter>>
        /\ UNCHANGED nonCacheVars

\* TTLCache.Get, first critical section: the read under RLock.
GetRead(key) ==
    /\ getter.pc = "idle"
    /\ IF key \in DOMAIN items
       THEN /\ getter' = [pc |-> "check", key |-> key, item |-> items[key]]
            /\ lastOp' = [op |-> "GetRead"]
       ELSE /\ getter' = GetterIdle
            /\ lastOp' = [op |-> "Get", key |-> key, found |-> FALSE,
                          stored |-> FALSE, removed |-> {}]
    /\ UNCHANGED <<clock, items, maxItems>>
    /\ UNCHANGED nonCacheVars

\* TTLCache.Get, item.Expired() on the copy read, outside any lock.
GetCheck ==
    /\ getter.pc = "check"
    /\ IF Expired(getter.item, clock)
       THEN /\ getter' = [getter EXCEPT !.pc = "delete"]
            /\ lastOp' = [op |-> "GetCheck"]
       ELSE /\ getter' = GetterIdle
            /\ lastOp' = [op |-> "Get", key |-> getter.key, found |-> TRUE,
                          stored |-> TRUE, item |-> getter.item, removed |-> {}]
    /\ UNCHANGED <<clock, items, maxItems>>
    /\ UNCHANGED nonCacheVars

\* TTLCache.Get, second critical section: delete(c.items, key) under Lock,
\* whatever the map holds for the key by now.
GetDelete ==
    /\ getter.pc = "delete"
    /\ items' = MapDelete(items, {getter.key})
    /\ lastOp' = [op |-> "Get", key |-> getter.key, found |-> FALSE,
                  stored |-> TRUE, item |-> getter.item,
                  removed |-> {items[k] : k \in {getter.key} \cap DOMAIN items}]
    /\ getter' = GetterIdle
    /\ UNCHANGED <<clock, maxItems>>
    /\ UNCHANGED nonCacheVars

\* TTLCache.Delete.
Delete(key) ==
    /\ key \in DOMAIN items
    /\ items' = MapDelete(items, {key})
    /\ lastOp' = [op |-> "Delete", key |-> key]
    /\ UNCHANGED <<clock, maxItems, getter>>
    /\ UNCHANGED nonCacheVars

\* TTLCache.Clear.
Clear ==
    /\ items # EmptyMap
    /\ items' = EmptyMap
    /\ lastOp' = [op |-> "Clear"]
    /\ UNCHANGED <<clock, maxItems, getter>>
    /\ UNCHANGED nonCacheVars

\* Mutant of SweepSet: an entry is removed at the instant of its expiration.
SweepSetEarly(m, t) ==
    {k \in DOMAIN m : m[k].Expiration > 0 /\ m[k].Expiration <= t}

\* The keys deleteExpired removes at time t.
SweepSet(m, t) == {k \in DOMAIN m : m[k].Expiration > 0 /\ m[k].Expiration < t}

\* TTLCache.deleteExpired, run by the cleanup ticker.
DeleteExpired ==
    /\ SweepSet(items, clock) # {}
    /\ items' = MapDelete(items, SweepSet(items, clock))
    /\ lastOp' = [op |-> "Sweep", removed |-> {items[k] : k \in SweepSet(items, clock)}]
    /\ UNCHANGED <<clock, maxItems, getter>>
    /\ UNCHANGED nonCacheVars

\* The wall clock advances.
Tick ==
    /\ clock < MaxClock
    /\ clock' = clock + 1
    /\ lastOp' = [op |-> "Tick"]
    /\ UNCHANGED <<items, maxItems, getter>>
    /\ UNCHANGED nonCacheVars

NextCache ==
    \/ \E key \in Keys, value \in Values, ttl \in TTLs : SetWithTTL(key, value, ttl)
    \/ \E key \in GetKeys : GetRead(key)
    \/ GetCheck
    \/ GetDelete
    \/ \E key \in Keys : Delete(key)
    \/ Clear
    \/ DeleteExpired
    \/ Tick

-----------------------------------------------------------------------------
(***************************************************************************)
(* pkg/osm: one token bucket, as RateLimiter.Wait (ratelimit.go) and       *)
(* waitForRateLimit (client.go) use it: limiter.Wait(ctx) of               *)
(* golang.org/x/time/rate. Tokens are counted in credits, TicksPerToken    *)
(* credits to a token, so that one tick of the clock replenishes one       *)
(* credit and every quantity is an integer.                                *)
(***************************************************************************)

\* Bounds of the limiter model.
MaxLTime == 4
MaxBurst == 2
TicksPerToken == 2

LCallers == {"w1", "w2", "w3"}
NoDeadline == -1

Min(a, b) == IF a < b THEN a ELSE b

\* rate.NewLimiter(rate.Every(every), burst): a full bucket that gains one
\* token every `every` ticks, that is one credit a tick.
NewLimiter(every, burst) ==
    [every |-> every, burst |-> burst, tokens |-> burst * every,
     last |-> 0, lastEvent |-> 0]

\* Mutant of Advance: the credits are not capped at the burst.
AdvanceUncapped(b, t) ==
    LET last == IF t < b.last THEN t ELSE b.last
    IN  b.tokens + (t - last)

\* Limiter.advance: the credits of bucket b at time t, capped at the burst.
Advance(b, t) ==
    LET last == IF t < b.last THEN t ELSE b.last
    IN  Min(b.burst * b.every, b.tokens + (t - last))

\* Mutant of ReserveN: the reservation never has to wait.
ReserveNNoWait(b, t, waitLimit) ==
    [ok |-> TRUE, timeToAct |-> t,
     lim |-> [b EXCEPT !.last = t, !.tokens = Advance(b, t) - b.every,
                       !.lastEvent = t]]

\* Limiter.reserveN(t, 1, waitLimit): the reservation and the bucket after it.
\* waitLimit is NoDeadline for a context without deadline (InfDuration).
ReserveN(b, t, waitLimit) ==
    LET tokens == Advance(b, t) - b.every
        waitDuration == IF tokens < 0 THEN -tokens ELSE 0
        ok == /\ 1 <= b.burst
              /\ (waitLimit = NoDeadline \/ waitDuration <= waitLimit)
    IN  [ok |-> ok, timeToAct |-> t + waitDuration,
         lim |-> IF ok
                 THEN [b EXCEPT !.last = t, !.tokens = tokens,
                                !.lastEvent = t + waitDuration]
                 ELSE b]

\* Reservation.CancelAt(t) of a reservation of one token due at timeToAct: the
\* bucket after it.
CancelAt(b, timeToAct, t) ==
    LET restoreTokens == b.every - (b.lastEvent - timeToAct)
        tokens == Min(b.burst * b.every, Advance(b, t) + restoreTokens)
        prevEvent == timeToAct - b.every
    IN  IF timeToAct < t \/ restoreTokens <= 0
        THEN b
        ELSE [b EXCEPT !.last = t, !.tokens = tokens,
                       !.lastEvent = IF timeToAct = b.lastEvent /\ ~(prevEvent < t)
                                     THEN prevEvent ELSE b.lastEvent]

WaiterIdle == [pc |-> "idle"]
NoLim == [op |-> "none"]

InitLimiter ==
    /\ ltime = 0
    /\ bucket \in {NewLimiter(TicksPerToken, burst) : burst \in 1..MaxBurst}
    /\ waiters = [c \in LCallers |-> WaiterIdle]
    /\ lastLim = NoLim

\* The limiter before any call: the state the other specifications keep it in.
LimUnused ==
    /\ ltime = 0
    /\ bucket = NewLimiter(1, 1)
    /\ waiters = [c \in LCallers |-> WaiterIdle]
    /\ lastLim = NoLim

\* limiter.Wait(ctx), up to its reservation: with a context that is live and
\* has the given deadline (NoDeadline: none), it returns nil at once, blocks on
\* a timer until the reservation's timeToAct, or fails at once because the wait
\* would exceed the deadline.
LimWait(c, deadline) ==
    LET waitLimit == IF deadline = NoDeadline THEN NoDeadline ELSE deadline - ltime
        r == ReserveN(bucket, ltime, waitLimit)
        outcome == IF ~r.ok THEN "err"
                   ELSE IF r.timeToAct = ltime THEN "ok" ELSE "waiting"
    IN  /\ waiters[c].pc = "idle"
        /\ bucket' = r.lim
        /\ waiters' = [waiters EXCEPT ![c] =
              [pc |-> outcome, calledAt |-> ltime, timeToAct |-> r.timeToAct,
               returnedAt |-> IF outcome = "waiting" THEN -1 ELSE ltime]]
        /\ lastLim' = [op |-> "Wait", caller |-> c, outcome |-> outcome,
                       before |-> bucket]
        /\ UNCHANGED ltime
        /\ UNCHANGED nonLimVars

\* limiter.Wait(ctx): the timer of a blocked caller fires, Wait returns nil.
LimTimer(c) ==
    /\ waiters[c].pc = "waiting"
    /\ ltime >= waiters[c].timeToAct
    /\ waiters' = [waiters EXCEPT ![c].pc = "ok", ![c].returnedAt = ltime]
    /\ lastLim' = [op |-> "Timer", caller |-> c]
    /\ UNCHANGED <<ltime, bucket>>
    /\ UNCHANGED nonLimVars

\* limiter.Wait(ctx): the context of a blocked caller is done first (cancelled,
\* or its deadline passed); Wait cancels the reservation and returns ctx.Err().
LimCancel(c) ==
    /\ waiters[c].pc = "waiting"
    /\ bucket' = CancelAt(bucket, waiters[c].timeToAct, ltime)
    /\ waiters' = [waiters EXCEPT ![c].pc = "err", ![c].returnedAt = ltime]
    /\ lastLim' = [op |-> "Cancel", caller |-> c, before |-> bucket,
                   timeToAct |-> waiters[c].timeToAct]
    /\ UNCHANGED ltime
    /\ UNCHANGED nonLimVars

\* The clock of the limiter advances.
LimTick ==
    /\ ltime < MaxLTime
    /\ ltime' = ltime + 1
    /\ lastLim' = [op |-> "Tick"]
    /\ UNCHANGED <<bucket, waiters>>
    /\ UNCHANGED nonLimVars

NextLimiter ==
    \/ \E c \in LCallers, d \in {NoDeadline, ltime + TicksPerToken} : LimWait(c, d)
    \/ \E c \in LCallers : LimTimer(c)
    \/ \E c \in LCallers : LimCancel(c)
    \/ LimTick
-----------------------------------------------------------------------------------------------------------------------------------------------
(***************************************************************************)
(* pkg/tools: the HTTP requests of the tool handlers and the limiter, if   *)
(* any, each waits on before it sends.                                     *)
(***************************************************************************)

Services == {"nominatim", "overpass", "osrm"}

\* The two sets of limiters: the package variables of client.go, which
\* DoRequest waits on, and the map of the RateLimiter of ratelimit.go, which
\* WaitForService waits on.
Registries == {"client", "registry"}

\* The limiter a package variable of client.go pointed to before
\* Update*RateLimits replaced it.
Replaced == "replaced"

\* initRateLimiters (client.go) and GetRateLimiter (ratelimit.go): the limiter
\* of each service, its interval in milliseconds and its burst.
InitialLimiters ==
    [b \in (Registries \cup {Replaced}) \X Services |->
        IF b[1] \in {"client", Replaced} THEN NewLimiter(1000, 1)
        ELSE IF b[2] = "nominatim" THEN NewLimiter(1000, 1)
        ELSE IF b[2] = "overpass" THEN NewLimiter(30000, 2)
        ELSE NewLimiter(600, 5)]

\* Every place of pkg/tools that sends an HTTP request to an upstream service:
\* the service, and how the request is sent: through osm.DoRequest, after
\* osm.WaitForService, or with client.Do alone.
CallSites ==
    { [site |-> "geocodeQuery/withRetry", service |-> "nominatim", via |-> "DoRequest"],
      [site |-> "HandleReverseGeocode/withRetry", service |-> "nominatim", via |-> "DoRequest"],
      [site |-> "HandleGetRoute", service |-> "osrm", via |-> "DoRequest"],
      [site |-> "HandleGetRouteDirections", service |-> "osrm", via |-> "WaitForService"],
      [site |-> "getNeighborhoodName", service |-> "nominatim", via |-> "none"],
      [site |-> "HandleExploreArea", service |-> "overpass", via |-> "none"],
      [site |-> "HandleAnalyzeNeighborhood", service |-> "overpass", via |-> "none"],
      [site |-> "HandleFindNearbyPlaces", service |-> "overpass", via |-> "none"],
      [site |-> "HandleSearchCategory", service |-> "overpass", via |-> "none"],
      [site |-> "HandleFindParkingFacilities", service |-> "overpass", via |-> "none"],
      [site |-> "HandleFindSchoolsNearby", service |-> "overpass", via |-> "none"],
      [site |-> "HandleFindChargingStations", service |-> "overpass", via |-> "none"],
      [site |-> "HandleFindRouteChargingStations/route", service |-> "osrm", via |-> "none"],
      [site |-> "HandleFindRouteChargingStations/stations", service |-> "overpass", via |-> "none"],
      [site |-> "HandleAnalyzeCommute", service |-> "osrm", via |-> "none"] }

ToolCalls == {"t1", "t2", "t3"}

\* The limits Update*RateLimits may be called with: the interval in
\* milliseconds (1000 / rps) and the burst.
NewLimits == {[every |-> 500, burst |-> 2]}
\* rateLimits of a service: the limits it was last set to, none at first.
DefaultLimits == {}

\* A service name neither registry has a limiter for.
UnknownService == "unknown"

\* The limiter a call site waits on: none for a bare client.Do.
BucketOf(cs) ==
    IF cs.via = "DoRequest" THEN <<"client", cs.service>>
    ELSE IF cs.via = "WaitForService" THEN <<"registry", cs.service>>
    ELSE <<"none", cs.service>>

\* The timeout of the context HandleGetRouteDirections waits with, in
\* milliseconds; the other handlers wait with the context of the invocation.
DeadlineOf(cs, t) ==
    IF cs.via = "WaitForService" THEN t + 15000 ELSE NoDeadline

CallIdle == [pc |-> "idle"]

InitTools ==
    /\ ttime = 0
    /\ limiters = InitialLimiters
    /\ calls = [t \in ToolCalls |-> CallIdle]
    /\ sentLog = {}
    /\ rateLimits = [s \in Services |-> DefaultLimits]

\* The tool handlers before any invocation.
ToolsUnused ==
    /\ ttime = 0
    /\ limiters = InitialLimiters
    /\ calls = [t \in ToolCalls |-> CallIdle]
    /\ sentLog = {}
    /\ rateLimits = [s \in Services |-> DefaultLimits]

\* The interval and burst of a limiter; none for no limiter.
LimitsOf(b) ==
    IF b[1] = "none" THEN {}
    ELSE {[every |-> limiters[b].every, burst |-> limiters[b].burst]}

\* httpClient.Do(req) / client.Do(httpReq): the request leaves for the service.
\* History: the limits of the limiter waited on, and the limits that had been
\* set for the service when the wait began.
Sent(t, cs, waitedOn, required) ==
    [call |-> t, site |-> cs.site, service |-> cs.service, waitedOn |-> waitedOn,
     at |-> ttime, limits |-> LimitsOf(waitedOn), required |-> required]

\* A tool handler reaches one of its call sites. A bare client.Do sends at
\* once. DoRequest and WaitForService first call limiter.Wait: it returns nil
\* at once (the request is sent), blocks, or fails at once because the wait
\* would exceed the deadline: DoRequest then returns the error, while
\* HandleGetRouteDirections only returns on a context error and sends the
\* request after any other error.
\* waitForRateLimit reads the package variable of the limiter without
\* synchronisation: after Update*RateLimits has written it, the read yields
\* the new limiter or (stale) the one it replaced.
ToolRequest(t, cs, stale) ==
    /\ calls[t].pc = "idle"
    /\ stale => cs.via = "DoRequest" /\ rateLimits[cs.service] # DefaultLimits
    /\ IF cs.via = "none"
       THEN /\ calls' = [calls EXCEPT ![t] = [pc |-> "sent", site |-> cs]]
            /\ sentLog' = sentLog \cup
                  {Sent(t, cs, <<"none", cs.service>>, rateLimits[cs.service])}
            /\ UNCHANGED limiters
       ELSE LET b == IF stale THEN <<Replaced, cs.service>> ELSE BucketOf(cs)
                deadline == DeadlineOf(cs, ttime)
                required == rateLimits[cs.service]
                r == ReserveN(limiters[b], ttime,
                              IF deadline = NoDeadline THEN NoDeadline
                              ELSE deadline - ttime)
            IN  /\ limiters' = [limiters EXCEPT ![b] = r.lim]
                /\ IF r.ok /\ r.timeToAct = ttime
                   THEN /\ calls' = [calls EXCEPT ![t] = [pc |-> "sent", site |-> cs]]
                        /\ sentLog' = sentLog \cup {Sent(t, cs, b, required)}
                   ELSE IF r.ok
                   THEN /\ calls' = [calls EXCEPT ![t] =
                               [pc |-> "blocked", site |-> cs, on |-> b,
                                timeToAct |-> r.timeToAct, required |-> required]]
                        /\ UNCHANGED sentLog
                   ELSE IF cs.via = "WaitForService"
                   THEN /\ calls' = [calls EXCEPT ![t] = [pc |-> "sent", site |-> cs]]
                        /\ sentLog' = sentLog \cup
                              {Sent(t, cs, <<"none", cs.service>>, required)}
                   ELSE /\ calls' = [calls EXCEPT ![t] = [pc |-> "failed", site |-> cs]]
                        /\ UNCHANGED sentLog
    /\ UNCHANGED <<ttime, rateLimits>>
    /\ UNCHANGED nonToolVars

\* limiter.Wait returns nil to a blocked handler, which sends its request.
ToolRelease(t) ==
    /\ calls[t].pc = "blocked"
    /\ ttime >= calls[t].timeToAct
    /\ calls' = [calls EXCEPT ![t] = [pc |-> "sent", site |-> calls[t].site]]
    /\ sentLog' = sentLog \cup
          {Sent(t, calls[t].site, calls[t].on, calls[t].required)}
    /\ UNCHANGED <<ttime, limiters, rateLimits>>
    /\ UNCHANGED nonToolVars

\* The context of a blocked handler is done: limiter.Wait cancels the
\* reservation and returns ctx.Err(), and the handler returns without sending.
ToolCancel(t) ==
    /\ calls[t].pc = "blocked"
    /\ limiters' = [limiters EXCEPT ![calls[t].on] =
                       CancelAt(@, calls[t].timeToAct, ttime)]
    /\ calls' = [calls EXCEPT ![t] = [pc |-> "failed", site |-> calls[t].site]]
    /\ UNCHANGED <<ttime, sentLog, rateLimits>>
    /\ UNCHANGED nonToolVars

\* Time passes until the next blocked handler is due.
ToolAdvance ==
    /\ \E t \in ToolCalls :
          /\ calls[t].pc = "blocked"
          /\ calls[t].timeToAct > ttime
          /\ \A u \in ToolCalls :
                (calls[u].pc = "blocked" /\ calls[u].timeToAct > ttime)
                => calls[t].timeToAct <= calls[u].timeToAct
          /\ ttime' = calls[t].timeToAct
    /\ UNCHANGED <<limiters, calls, sentLog, rateLimits>>
    /\ UNCHANGED nonToolVars

\* UpdateNominatimRateLimits / UpdateOverpassRateLimits / UpdateOSRMRateLimits:
\* the package variable of client.go is pointed to a new, full limiter. The
\* limiter it pointed to stays with the callers blocked on it. The limiters
\* of the RateLimiter of ratelimit.go are not touched.
UpdateRateLimits(service, limits) ==
    /\ rateLimits[service] = DefaultLimits
    /\ rateLimits' = [rateLimits EXCEPT ![service] = {limits}]
    /\ limiters' = [limiters EXCEPT
          ![<<Replaced, service>>] = limiters[<<"client", service>>],
          ![<<"client", service>>] =
              [NewLimiter(limits.every, limits.burst) EXCEPT
                  !.last = ttime, !.lastEvent = ttime]]
    /\ calls' = [t \in ToolCalls |->
                   IF calls[t].pc = "blocked" /\ calls[t].on = <<"client", service>>
                   THEN [calls[t] EXCEPT !.on = <<Replaced, service>>]
                   ELSE calls[t]]
    /\ UNCHANGED <<ttime, sentLog>>
    /\ UNCHANGED nonToolVars

\* A wait for a service no limiter is defined for. RateLimiter.Wait
\* (WaitForService) returns an error; waitForRateLimit (DoRequest, a request
\* to an unknown host) returns nil. Neither blocks nor touches a limiter.
WaitUnknown(t, via) ==
    /\ calls[t].pc = "idle"
    /\ calls' = [calls EXCEPT ![t] =
          [pc |-> "waited", service |-> UnknownService, via |-> via,
           err |-> IF via = "WaitForService"
                   THEN <<"no rate limiter defined for service">>
                   ELSE <<>>]]
    /\ UNCHANGED <<ttime, limiters, sentLog, rateLimits>>
    /\ UNCHANGED nonToolVars

NextTools ==
    \/ \E t \in ToolCalls, cs \in CallSites, stale \in BOOLEAN :
          ToolRequest(t, cs, stale)
    \/ \E t \in ToolCalls : ToolRelease(t)
    \/ \E t \in ToolCalls : ToolCancel(t)
    \/ ToolAdvance
    \/ \E service \in Services, limits \in NewLimits :
          UpdateRateLimits(service, limits)
    \/ \E t \in ToolCalls, via \in {"WaitForService", "DoRequest"} :
          WaitUnknown(t, via)

-----------------------------------------------------------------------------
(***************************************************************************)
(* pkg/tools geocode.go: geocodeQuery, its cache, the singleflight group   *)
(* requestGroup and withRetry.                                             *)
(***************************************************************************)

\* maxRetries and initialBackoff (milliseconds) of geocode.go.
maxRetries == 3
initialBackoff == 500

GCallers == {"a", "b"}
\* The cache keys (cacheKey(query)) the callers resolve.
GKeys == {"q1", "q2"}
\* What the upstream service answers to one attempt: status 200, another
\* status, or no answer (transport error).
Upstream == {"200", "status", "transport"}
\* What the body of a 200 answer decodes to: no JSON array, an empty list of
\* results, a list of results.
Bodies == {"garbage", "empty", "R1"}

\* Errors are sequences of message parts, a wrapped error following its
\* prefix; NoErr is the nil error. Pending: withRetry has not returned yet.
NoErr == <<>>
Pending == <<"pending">>
ContextErr == <<"context canceled">>
DecodeErr == <<"failed to decode response">>

NoValue == [val |-> "nil", err |-> NoErr]

\* fmt.Errorf("max retries reached: %w", lastErr).
MaxRetriesErr(lastErr) == <<"max retries reached">> \o lastErr

\* Mutant of NextDelay: the delay is not doubled.
NextDelayFlat(delay) == delay

\* withRetry: delay *= 2.
NextDelay(delay) == delay * 2

NewQuery(key) ==
    [pc |-> "start", key |-> key, early |-> FALSE, shared |-> FALSE,
     leader |-> "none",
     attempt |-> 0,
     delay |-> initialBackoff, lastErr |-> NoErr, backoffs |-> <<>>,
     outcomes |-> <<>>, retry |-> Pending, fn |-> NoValue, result |-> NoValue]

InitGeo ==
    /\ geocodeCache = EmptyMap
    /\ requestGroup = EmptyMap
    /\ gq \in {[c \in GCallers |-> NewQuery(k[c])] : k \in [GCallers -> GKeys]}
    /\ ctxDone = [c \in GCallers |-> FALSE]

\* The executor before any call.
GeoUnused ==
    /\ geocodeCache = EmptyMap
    /\ requestGroup = EmptyMap
    /\ gq = [c \in GCallers |-> NewQuery("q1")]
    /\ ctxDone = [c \in GCallers |-> FALSE]

\* geocodeQuery: geocodeCache.Get(key); a hit returns the cached results.
\* History: early records that no call had returned when this one began.
GCacheGet(c) ==
    /\ gq[c].pc = "start"
    /\ LET q == [gq[c] EXCEPT !.early = \A d \in GCallers : gq[d].pc # "done"]
       IN  IF q.key \in DOMAIN geocodeCache
           THEN gq' = [gq EXCEPT ![c] =
                         [q EXCEPT !.pc = "done",
                                   !.result = [val |-> geocodeCache[q.key],
                                               err |-> NoErr]]]
           ELSE gq' = [gq EXCEPT ![c] = [q EXCEPT !.pc = "do"]]
    /\ UNCHANGED <<geocodeCache, requestGroup, ctxDone>>
    /\ UNCHANGED nonGeoVars

\* requestGroup.Do(key, fn), under the group's mutex: a caller that finds a
\* call for the key in flight waits for it; otherwise it registers a call and
\* runs fn, which builds the request and enters withRetry.
GDo(c) ==
    /\ gq[c].pc = "do"
    /\ IF gq[c].key \in DOMAIN requestGroup
       THEN /\ gq' = [gq EXCEPT ![c].pc = "wait",
                                ![c].leader = requestGroup[gq[c].key]]
            /\ UNCHANGED requestGroup
       ELSE /\ requestGroup' = MapPut(requestGroup, gq[c].key, c)
            /\ gq' = [gq EXCEPT ![c].pc = "request", ![c].leader = c]
    /\ UNCHANGED <<geocodeCache, ctxDone>>
    /\ UNCHANGED nonGeoVars

\* withRetry after a failed attempt: the loop ends after maxAttempts attempts
\* with "max retries reached", otherwise the next attempt waits first.
AfterFailure(q, err) ==
    LET n == q.attempt + 1
    IN  IF n < maxRetries
        THEN [q EXCEPT !.attempt = n, !.lastErr = err, !.pc = "backoff"]
        ELSE [q EXCEPT !.attempt = n, !.lastErr = err, !.pc = "fnret",
                       !.retry = MaxRetriesErr(err),
                       !.fn = [val |-> "nil", err |-> MaxRetriesErr(err)]]

\* withRetry: osm.DoRequest(ctx, req): the wait on the Nominatim limiter and
\* httpClient.Do. With the context done both fail with the context's error;
\* otherwise the upstream service decides.
GRequest(c, answer) ==
    /\ gq[c].pc = "request"
    /\ LET outcome == IF ctxDone[c] THEN "context canceled" ELSE answer
           q == [gq[c] EXCEPT !.outcomes = Append(@, outcome)]
       IN  gq' = [gq EXCEPT ![c] =
                    IF outcome = "200"
                    THEN [q EXCEPT !.pc = "decode", !.retry = NoErr]
                    ELSE AfterFailure(q, <<outcome>>)]
    /\ UNCHANGED <<geocodeCache, requestGroup, ctxDone>>
    /\ UNCHANGED nonGeoVars

\* withRetry: the backoff delay has elapsed; the delay is doubled for the
\* next retry.
GBackoffTimer(c) ==
    /\ gq[c].pc = "backoff"
    /\ gq' = [gq EXCEPT ![c].pc = "request",
                        ![c].backoffs = Append(@, gq[c].delay),
                        ![c].delay = NextDelay(@)]
    /\ UNCHANGED <<geocodeCache, requestGroup, ctxDone>>
    /\ UNCHANGED nonGeoVars

\* withRetry: the context is done during the backoff delay: return ctx.Err().
GBackoffCancel(c) ==
    /\ gq[c].pc = "backoff"
    /\ ctxDone[c]
    /\ gq' = [gq EXCEPT ![c].pc = "fnret", ![c].retry = ContextErr,
                        ![c].fn = [val |-> "nil", err |-> ContextErr]]
    /\ UNCHANGED <<geocodeCache, requestGroup, ctxDone>>
    /\ UNCHANGED nonGeoVars

\* fn after withRetry succeeded: decode the body; cache and return the
\* results, or return the decode error.
GDecode(c, body) ==
    /\ gq[c].pc = "decode"
    /\ IF body = "garbage"
       THEN /\ gq' = [gq EXCEPT ![c].pc = "fnret",
                                ![c].fn = [val |-> "nil",
                                           err |-> DecodeErr]]
            /\ UNCHANGED geocodeCache
       ELSE /\ gq' = [gq EXCEPT ![c].pc = "fnret",
                                ![c].fn = [val |-> body, err |-> NoErr]]
            /\ geocodeCache' = MapPut(geocodeCache, gq[c].key, body)
    /\ UNCHANGED <<requestGroup, ctxDone>>
    /\ UNCHANGED nonGeoVars

\* Mutant of GFnReturn: the call stays in the group.
GFnReturnKeep(c) ==
    /\ gq[c].pc = "fnret"
    /\ gq' = [gq EXCEPT ![c].pc = "done", ![c].result = gq[c].fn]
    /\ UNCHANGED <<geocodeCache, requestGroup, ctxDone>>
    /\ UNCHANGED nonGeoVars

\* requestGroup.Do: fn has returned; under the group's mutex the call is
\* removed from the group and its result published; Do returns it.
GFnReturn(c) ==
    /\ gq[c].pc = "fnret"
    /\ requestGroup' = MapDelete(requestGroup, {gq[c].key})
    /\ gq' = [gq EXCEPT ![c].pc = "done", ![c].result = gq[c].fn]
    /\ UNCHANGED <<geocodeCache, ctxDone>>
    /\ UNCHANGED nonGeoVars

\* requestGroup.Do of a caller that waited for a call in flight: it returns the
\* result of that call. The wait does not look at the caller's context.
GShared(c) ==
    /\ gq[c].pc = "wait"
    /\ gq[gq[c].leader].pc = "done"
    /\ gq' = [gq EXCEPT ![c].pc = "done", ![c].result = gq[gq[c].leader].result]
    /\ UNCHANGED <<geocodeCache, requestGroup, ctxDone>>
    /\ UNCHANGED nonGeoVars

\* The callers waiting, with caller c, for the call that c runs or waits for.
CoWaiters(c) ==
    {d \in GCallers \ {c} :
        /\ gq[c].leader # "none"
        /\ gq[c].pc # "done"
        /\ gq[d].pc = "wait"
        /\ gq[d].leader = gq[c].leader}

\* The context of a caller is cancelled, or its deadline passes.
\* History: shared records that another caller was waiting for the same call.
GCancel(c) ==
    /\ gq[c].pc # "done"
    /\ ~ctxDone[c]
    /\ ctxDone' = [ctxDone EXCEPT ![c] = TRUE]
    /\ gq' = [gq EXCEPT ![c].shared = CoWaiters(c) # {}]
    /\ UNCHANGED <<geocodeCache, requestGroup>>
    /\ UNCHANGED nonGeoVars

Next ==
    \/ \E c \in GCallers : GCacheGet(c)
    \/ \E c \in GCallers : GDo(c)
    \/ \E c \in GCallers, answer \in Upstream : GRequest(c, answer)
    \/ \E c \in GCallers : GBackoffTimer(c)
    \/ \E c \in GCallers : GBackoffCancel(c)
    \/ \E c \in GCallers, body \in Bodies : GDecode(c, body)
    \/ \E c \in GCallers : GFnReturn(c)
    \/ \E c \in GCallers : GShared(c)
    \/ \E c \in GCallers : GCancel(c)

-----------------------------------------------------------------------------
(***************************************************************************)
(* pkg/tools geocode.go: HandleGeocodeAddress with sanitizeAddress,        *)
(* ensureRegion and resultsToPlaces.  Strings are sequences of characters. *)
(***************************************************************************)

\* Longest address argument considered.
MaxAddrLen == 4

\* A letter, the letter the region consists of, and the characters
\* sanitizeAddress and ensureRegion look for.
Alphabet == {"a", "r", " ", "(", ")", ","}
Addresses == UNION {[1..n -> Alphabet] : n \in 0..MaxAddrLen}
Regions == {<<>>, <<"r">>}

\* minImportance in tenths; maxResults is the limit parameter of the request.
minImportance == 4
maxResults == 3
Importances == {1, 2, 5, 8}
\* A result of the service: its importance, and whether its lat and lon parse.
NominatimResults == [Importance : Importances, valid : BOOLEAN]
ResultLists == UNION {[1..n -> NominatimResults] : n \in 1..maxResults}

SeqMin(S) == CHOOSE x \in S : \A y \in S : x <= y
SeqMax(S) == CHOOSE x \in S : \A y \in S : x >= y

\* strings.TrimSpace.
TrimSpace(s) ==
    LET solid == {i \in 1..Len(s) : s[i] # " "}
    IN  IF solid = {} THEN <<>> ELSE SubSeq(s, SeqMin(solid), SeqMax(solid))

\* regexp `\s+` replaced by a single space.
RECURSIVE CollapseSpaces(_)
CollapseSpaces(s) ==
    IF Len(s) < 2 THEN s
    ELSE IF s[1] = " " /\ s[2] = " " THEN CollapseSpaces(Tail(s))
    ELSE <<s[1]>> \o CollapseSpaces(Tail(s))

\* strings.Contains.
Contains(s, sub) ==
    \E i \in 0..(Len(s) - Len(sub)) : SubSeq(s, i + 1, i + Len(sub)) = sub

\* len(strings.Fields(s)).
Fields(s) ==
    Cardinality({i \in 1..Len(s) : s[i] # " " /\ (i = 1 \/ s[i - 1] = " ")})

\* The leftmost match of regexp `\(([^)]*)\)`: the first "(" that has a ")"
\* after it, up to the first ")" after it; <<0, 0>> without a match.
ParensMatch(s) ==
    LET opens == {i \in 1..Len(s) :
                     s[i] = "(" /\ \E j \in (i + 1)..Len(s) : s[j] = ")"}
    IN  IF opens = {} THEN <<0, 0>>
        ELSE LET i == SeqMin(opens)
             IN  <<i, SeqMin({j \in (i + 1)..Len(s) : s[j] = ")"})>>

\* reParens.ReplaceAllString(s, " ").
RECURSIVE ReplaceParens(_)
ReplaceParens(s) ==
    LET m == ParensMatch(s)
    IN  IF m[1] = 0 THEN s
        ELSE SubSeq(s, 1, m[1] - 1) \o <<" ">>
                 \o ReplaceParens(SubSeq(s, m[2] + 1, Len(s)))

\* sanitizeAddress: <<withoutParens, parensContent>>.
sanitizeAddress(addr) ==
    LET clean == CollapseSpaces(TrimSpace(addr))
        m == ParensMatch(clean)
    IN  IF m[1] = 0 THEN <<clean, <<>>>>
        ELSE <<CollapseSpaces(TrimSpace(ReplaceParens(clean))),
               TrimSpace(SubSeq(clean, m[1] + 1, m[2] - 1))>>

ensureRegion(query, reg) ==
    IF reg = <<>> \/ Contains(query, reg) THEN query
    ELSE IF ~Contains(query, <<",">>) /\ Fields(query) < 3
         THEN query \o <<" ">> \o reg
         ELSE query

\* Mutant of QuerySequence: the full original text is tried first.
QuerySequenceFullFirst(addr, reg) ==
    LET sa == sanitizeAddress(addr)
    IN  <<ensureRegion(addr, reg)>>
        \o (IF sa[1] # <<>> /\ sa[1] # addr
            THEN <<ensureRegion(sa[1], reg)>> ELSE <<>>)
        \o (IF sa[2] # <<>> THEN <<ensureRegion(sa[2], reg)>> ELSE <<>>)

\* HandleGeocodeAddress: querySequence.
QuerySequence(addr, reg) ==
    LET sa == sanitizeAddress(addr)
    IN  (IF sa[1] # <<>> /\ sa[1] # addr
         THEN <<ensureRegion(sa[1], reg)>> ELSE <<>>)
        \o (IF sa[2] # <<>> THEN <<ensureRegion(sa[2], reg)>> ELSE <<>>)
        \o <<ensureRegion(addr, reg)>>

\* HandleGeocodeAddress: the queries of a sequence, each once, in the order of
\* their first occurrence.
RECURSIVE Unique(_)
Unique(qs) ==
    IF qs = <<>> THEN <<>>
    ELSE LET front == Unique(SubSeq(qs, 1, Len(qs) - 1))
             last == qs[Len(qs)]
         IN  IF \E i \in 1..Len(front) : front[i] = last
             THEN front ELSE Append(front, last)

\* sort.Slice by descending Importance; the sort is not stable: any
\* arrangement of the results in descending order.
SortedByImportance(rs) ==
    LET n == Len(rs)
        perms == {f \in [1..n -> 1..n] : \A i, j \in 1..n : i # j => f[i] # f[j]}
    IN  {[i \in 1..n |-> rs[f[i]]] : f \in
            {g \in perms : \A i, j \in 1..n :
                i < j => rs[g[i]].Importance >= rs[g[j]].Importance}}

\* HandleGeocodeAddress: bestResultIndex (counted from 1): the first result
\* with Importance >= minImportance, the first result when there is none.
BestResultIndex(rs) ==
    LET good == {i \in 1..Len(rs) : rs[i].Importance >= minImportance}
    IN  IF good = {} THEN 1 ELSE SeqMin(good)

IsValid(r) == r.valid

\* resultsToPlaces: results whose lat or lon do not parse are skipped.
resultsToPlaces(rs) == SelectSeq(rs, IsValid)

NoOutput == [code |-> "none", Place |-> <<>>, Candidates |-> <<>>]

ErrorOutput(code) == [code |-> code, Place |-> <<>>, Candidates |-> <<>>]

\* HandleGeocodeAddress after its query loop, for the sorted results.
Select(sorted) ==
    LET places == resultsToPlaces(sorted)
        best == BestResultIndex(sorted)
    IN  IF places = <<>> THEN ErrorOutput("PARSE_ERROR")
        ELSE IF best > Len(places) THEN ErrorOutput("panic")
        ELSE [code |-> "OK", Place |-> <<places[best]>>, Candidates |-> places]

\* A resolution of any address up to MaxAddrLen; the service answers a
\* successful query with one result.
InitFallback ==
    /\ address \in Addresses
    /\ region \in Regions
    /\ nominatim = {<<[Importance |-> 5, valid |-> TRUE]>>}
    /\ ppc = "start"
    /\ uniqueQueries = <<>>
    /\ tried = <<>>
    /\ answers = <<>>
    /\ allResults = <<>>
    /\ output = NoOutput

\* A resolution of one address; the service answers a successful query with
\* any list of up to maxResults results.
InitRank ==
    /\ address = <<"a", "(", "r", ")">>
    /\ region = <<"r">>
    /\ nominatim = ResultLists
    /\ ppc = "start"
    /\ uniqueQueries = <<>>
    /\ tried = <<>>
    /\ answers = <<>>
    /\ allResults = <<>>
    /\ output = NoOutput

\* The handler before any call.
PipeUnused ==
    /\ address = <<>>
    /\ region = <<>>
    /\ nominatim = {}
    /\ ppc = "start"
    /\ uniqueQueries = <<>>
    /\ tried = <<>>
    /\ answers = <<>>
    /\ allResults = <<>>
    /\ output = NoOutput

\* HandleGeocodeAddress up to its query loop: an empty address is rejected,
\* otherwise the queries to try are assembled.
PStart ==
    /\ ppc = "start"
    /\ IF address = <<>>
       THEN /\ output' = ErrorOutput("EMPTY_ADDRESS")
            /\ ppc' = "done"
            /\ UNCHANGED uniqueQueries
       ELSE /\ uniqueQueries' = Unique(QuerySequence(address, region))
            /\ ppc' = "loop"
            /\ UNCHANGED output
    /\ UNCHANGED <<address, region, nominatim, tried, answers, allResults>>
    /\ UNCHANGED nonPipeVars

\* The position after a query that did not succeed: the next query, or the
\* end of the loop.
AfterQuery == IF Len(tried) + 1 < Len(uniqueQueries) THEN "loop" ELSE "select"

\* The query loop: geocodeQuery returns an error; continue.
PQueryError ==
    /\ ppc = "loop"
    /\ tried' = Append(tried, uniqueQueries[Len(tried) + 1])
    /\ answers' = Append(answers, "error")
    /\ ppc' = AfterQuery
    /\ UNCHANGED <<address, region, nominatim, uniqueQueries, allResults, output>>
    /\ UNCHANGED nonPipeVars

\* The query loop: geocodeQuery returns no results; go on to the next query.
PQueryEmpty ==
    /\ ppc = "loop"
    /\ tried' = Append(tried, uniqueQueries[Len(tried) + 1])
    /\ answers' = Append(answers, "empty")
    /\ ppc' = AfterQuery
    /\ UNCHANGED <<address, region, nominatim, uniqueQueries, allResults, output>>
    /\ UNCHANGED nonPipeVars

\* The query loop: geocodeQuery returns results; break.
PQueryResults(results) ==
    /\ ppc = "loop"
    /\ tried' = Append(tried, uniqueQueries[Len(tried) + 1])
    /\ answers' = Append(answers, "results")
    /\ allResults' = results
    /\ ppc' = "select"
    /\ UNCHANGED <<address, region, nominatim, uniqueQueries, output>>
    /\ UNCHANGED nonPipeVars

\* HandleGeocodeAddress after its query loop: NO_RESULTS, or sort the
\* results, pick the best one and convert.
PSelect ==
    /\ ppc = "select"
    /\ IF allResults = <<>>
       THEN /\ output' = ErrorOutput("NO_RESULTS")
            /\ UNCHANGED allResults
       ELSE \E sorted \in SortedByImportance(allResults) :
                /\ allResults' = sorted
                /\ output' = Select(sorted)
    /\ ppc' = "done"
    /\ UNCHANGED <<address, region, nominatim, uniqueQueries, tried, answers>>
    /\ UNCHANGED nonPipeVars

NextPipeline ==
    \/ PStart
    \/ PQueryError
    \/ PQueryEmpty
    \/ \E results \in nominatim : PQueryResults(results)
    \/ PSelect

-----------------------------------------------------------------------------
(***************************************************************************)
(* pkg/tools geocode.go: invocations of HandleGeocodeAddress and           *)
(* HandleReverseGeocode, one after the other, from the validation of the   *)
(* input through cache, singleflight group, rate limiter, HTTP attempts    *)
(* and backoff to the tool result. Time is counted in hours.               *)
(***************************************************************************)

\* cacheTTL of geocode.go, in hours.
cacheTTL == 24
\* The clock advances in steps of HourStep up to MaxHours.
MaxHours == 36
HourStep == 12

\* The address arguments: none, and one with two candidate queries.
ResolveAddresses == {<<>>, <<"(", "a", ")">>}
ResolveRegion == <<"r">>
\* The latitude and longitude arguments: the limits of the valid ranges and
\* their neighbours outside.
Latitudes == {-91, 90, 91}
Longitudes == {-181, -180, 181}

\* The result lists a 200 answer to /search may decode to.
SearchResults ==
    {<<>>, <<[Importance |-> 5, valid |-> TRUE]>>,
     <<[Importance |-> 5, valid |-> FALSE]>>}
\* The results a 200 answer to /reverse may decode to.
ReverseResults ==
    {[Importance |-> 5, valid |-> TRUE], [Importance |-> 5, valid |-> FALSE]}
Garbage == "garbage"

\* strings.ToLower, on the upper-case letters of the model.
ToLower(s) ==
    [i \in 1..Len(s) |->
        CASE s[i] = "A" -> "a" [] s[i] = "R" -> "r" [] OTHER -> s[i]]

\* cacheKey: strings.ToLower(strings.TrimSpace(query)).
cacheKey(query) == ToLower(TrimSpace(query))

\* A coordinate of d whole degrees in units of 1e-6 degrees.
Degrees(d) == d * 1000000

\* int(math.Round(x * 1e5))
RoundE5(u) ==
    IF u >= 0 THEN (u + 5) \div 10 ELSE -(((-u) + 5) \div 10)

DigitChars == <<"0", "1", "2", "3", "4", "5", "6", "7", "8", "9">>

\* The decimal digits of a natural number.
RECURSIVE Decimal(_)
Decimal(n) ==
    IF n < 10 THEN <<DigitChars[n + 1]>>
    ELSE Append(Decimal(n \div 10), DigitChars[(n % 10) + 1])

\* fmt.Sprintf("%.5f", x) for x of n units of 1e-5; negative says that x has
\* the sign bit set, which a zero that was rounded from below zero keeps.
Fixed5(n, negative) ==
    LET a == IF n < 0 THEN -n ELSE n
    IN  (IF negative THEN <<"-">> ELSE <<>>)
        \o Decimal(a \div 100000) \o <<".">>
        \o [i \in 1..5 |-> DigitChars[((a \div (10 ^ (5 - i))) % 10) + 1]]

\* reverseGeoCacheKey: "%.5f,%.5f" of the coordinates rounded to 5 decimal
\* places; lat and lon in units of 1e-6 degrees.
reverseGeoCacheKey(lat, lon) ==
    Fixed5(RoundE5(lat), lat < 0) \o <<",">> \o Fixed5(RoundE5(lon), lon < 0)

\* Mutant of ValidLatitude: every latitude is accepted.
ValidLatitudeAny(lat) == TRUE

\* HandleReverseGeocode: the two range checks.
ValidLatitude(lat) == ~(lat < -90 \/ lat > 90)
ValidLongitude(lon) == ~(lon < -180 \/ lon > 180)

NoEffects == [tokens |-> 0, requests |-> 0, registered |-> 0, cacheWrites |-> 0]

\* A tool result: the code of the structured error ("OK" for a result), the
\* query it carries, the number of suggestions, and the Go error returned
\* next to it.
ToolResult(code, query, suggestions) ==
    [code |-> code, query |-> query, suggestions |-> suggestions,
     goErr |-> NoErr]

NoResult == ToolResult("none", <<>>, 0)

\* HandleGeocodeAddress: the NO_RESULTS error, with its suggestions.
NoResultsError(addr) ==
    ToolResult("NO_RESULTS", addr,
               2 + (IF Contains(addr, <<"(">>) /\ Contains(addr, <<")">>)
                    THEN 1 ELSE 0)
                 + (IF Contains(addr, <<",">>) THEN 1 ELSE 0)
                 + (IF Fields(addr) >= 2 THEN 2 ELSE 0))

\* HandleReverseGeocode: the SERVICE_ERROR error.
ServiceError(lat, lon) == ToolResult("SERVICE_ERROR", <<lat, lon>>, 1)

NoInvocation ==
    [pc |-> "idle", kind |-> "none", address |-> <<>>, latitude |-> 0,
     longitude |-> 0, ctx |-> "live", cancelledAt |-> "none",
     sentAfterCancel |-> FALSE, queries |-> <<>>, causes |-> <<>>,
     attempt |-> 0, waitFailed |-> FALSE, results |-> <<>>,
     effects |-> NoEffects, hitAge |-> -1, out |-> NoResult]

InitResolve ==
    /\ rnow = 0
    /\ lruCaches = [k \in {"forward", "reverse"} |-> EmptyMap]
    /\ inv = NoInvocation

\* The handlers before any invocation.
ResolveUnused ==
    /\ rnow = 0
    /\ lruCaches = [k \in {"forward", "reverse"} |-> EmptyMap]
    /\ inv = NoInvocation

Bump(effects, field) == [effects EXCEPT ![field] = @ + 1]

\* The key of the lookup in progress.
LookupKey(i) ==
    IF i.kind = "forward" THEN cacheKey(i.queries[Len(i.causes) + 1])
    ELSE reverseGeoCacheKey(Degrees(i.latitude), Degrees(i.longitude))

\* HandleGeocodeAddress after its query loop, for the results of the winning
\* query: the tool result.
ForwardResult(addr, results) ==
    LET sorted == CHOOSE r \in SortedByImportance(results) : TRUE
    IN  IF Select(sorted).code = "OK" THEN ToolResult("OK", addr, 0)
        ELSE ToolResult("PARSE_ERROR", addr, 0)

\* The invocation after a lookup has ended, cause saying how: with results,
\* "empty", or with an error: "decode", "upstream" (retries exhausted),
\* "limiter" (retries exhausted, the limiter refusing), "canceled".
\* HandleGeocodeAddress goes on to the next query after anything but
\* results and reports NO_RESULTS after the last one; HandleReverseGeocode
\* reports SERVICE_ERROR for every error, PARSE_ERROR for a result that does
\* not convert.
Returned(i, cause, results) ==
    LET j == [i EXCEPT !.causes = Append(@, cause), !.attempt = 0,
                       !.waitFailed = FALSE]
    IN  IF i.kind = "forward"
        THEN IF cause = "results"
             THEN [j EXCEPT !.pc = "done", !.results = results,
                            !.out = ForwardResult(i.address, results)]
             ELSE IF Len(j.causes) < Len(i.queries)
             THEN [j EXCEPT !.pc = "cache"]
             ELSE [j EXCEPT !.pc = "done", !.out = NoResultsError(i.address)]
        ELSE IF cause = "results"
             THEN [j EXCEPT !.pc = "done", !.results = results,
                            !.out = IF results[1].valid
                                    THEN ToolResult("OK", <<i.latitude, i.longitude>>, 0)
                                    ELSE ToolResult("PARSE_ERROR",
                                                    <<i.latitude, i.longitude>>, 0)]
             ELSE [j EXCEPT !.pc = "done",
                            !.out = ServiceError(i.latitude, i.longitude)]

\* withRetry after a failed attempt: back off, or give up after maxRetries
\* attempts with the last error wrapped.
AttemptFailed(i, cause) ==
    IF i.attempt + 1 < maxRetries
    THEN [i EXCEPT !.attempt = @ + 1, !.pc = "backoff"]
    ELSE Returned(i, cause, <<>>)

\* A tool invocation of geocode_address arrives. An empty address is
\* rejected; otherwise the queries are assembled.
RInvokeForward(addr) ==
    /\ inv.pc \in {"idle", "done"}
    /\ LET i == [NoInvocation EXCEPT !.kind = "forward", !.address = addr]
       IN  inv' = IF addr = <<>>
                  THEN [i EXCEPT !.pc = "done",
                                 !.out = ToolResult("EMPTY_ADDRESS", addr, 2)]
                  ELSE [i EXCEPT !.pc = "cache",
                                 !.queries = Unique(QuerySequence(addr, ResolveRegion))]
    /\ UNCHANGED <<rnow, lruCaches>>
    /\ UNCHANGED nonResVars

\* A tool invocation of reverse_geocode arrives. Coordinates out of range are
\* rejected.
RInvokeReverse(lat, lon) ==
    /\ inv.pc \in {"idle", "done"}
    /\ LET i == [NoInvocation EXCEPT !.kind = "reverse", !.latitude = lat,
                                     !.longitude = lon]
       IN  inv' = IF ~ValidLatitude(lat)
                  THEN [i EXCEPT !.pc = "done",
                                 !.out = ToolResult("INVALID_LATITUDE", <<lat, lon>>, 1)]
                  ELSE IF ~ValidLongitude(lon)
                  THEN [i EXCEPT !.pc = "done",
                                 !.out = ToolResult("INVALID_LONGITUDE", <<lat, lon>>, 1)]
                  ELSE [i EXCEPT !.pc = "cache"]
    /\ UNCHANGED <<rnow, lruCaches>>
    /\ UNCHANGED nonResVars

\* geocodeCache.Get / reverseGeocodeCache.Get: a hit is returned, whatever its
\* age (the LRU caches have no expiry); after a miss the lookup registers in
\* requestGroup and enters withRetry.
\* History: hitAge records the age of the entry returned.
RCacheGet ==
    /\ inv.pc = "cache"
    /\ LET key == LookupKey(inv)
           cache == lruCaches[inv.kind]
       IN  IF key \in DOMAIN cache
           THEN LET i == [inv EXCEPT !.hitAge = rnow - cache[key].storedAt]
                    val == cache[key].val
                IN  inv' = IF inv.kind = "forward" /\ val = <<>>
                           THEN Returned(i, "empty", <<>>)
                           ELSE Returned(i, "results", val)
           ELSE inv' = [inv EXCEPT !.pc = "limiter",
                                   !.effects = Bump(@, "registered")]
    /\ UNCHANGED <<rnow, lruCaches>>
    /\ UNCHANGED nonResVars

\* osm.DoRequest: nominatimLimiter.Wait(ctx). With the context done it
\* returns the context's error. Otherwise it takes a token and returns at
\* once ("now"), reserves a token and blocks ("later"), or refuses because
\* the wait would exceed the deadline of the context ("refuse").
RLimiter(grant) ==
    /\ inv.pc = "limiter"
    /\ inv' = IF inv.ctx # "live"
              THEN AttemptFailed([inv EXCEPT !.waitFailed = TRUE], "canceled")
              ELSE IF grant = "now"
              THEN [inv EXCEPT !.pc = "http", !.effects = Bump(@, "tokens")]
              ELSE IF grant = "later"
              THEN [inv EXCEPT !.pc = "limwait", !.effects = Bump(@, "tokens")]
              ELSE AttemptFailed([inv EXCEPT !.waitFailed = TRUE], "limiter")
    /\ UNCHANGED <<rnow, lruCaches>>
    /\ UNCHANGED nonResVars

\* The reserved token is due: Wait returns nil.
RLimiterTimer ==
    /\ inv.pc = "limwait"
    /\ inv' = [inv EXCEPT !.pc = "http"]
    /\ UNCHANGED <<rnow, lruCaches>>
    /\ UNCHANGED nonResVars

\* The context is done while Wait blocks: Wait returns the context's error.
RLimiterCancel ==
    /\ inv.pc = "limwait"
    /\ inv.ctx # "live"
    /\ inv' = AttemptFailed([inv EXCEPT !.waitFailed = TRUE], "canceled")
    /\ UNCHANGED <<rnow, lruCaches>>
    /\ UNCHANGED nonResVars

\* osm.DoRequest: httpClient.Do(req). With the context done nothing is sent
\* and the context's error returned; otherwise the request is sent and the
\* service answers.
RHttp(answer) ==
    /\ inv.pc = "http"
    /\ inv' = IF inv.ctx # "live" THEN AttemptFailed(inv, "canceled")
              ELSE LET i == [inv EXCEPT !.effects = Bump(@, "requests")]
                   IN  IF answer = "200" THEN [i EXCEPT !.pc = "decode"]
                       ELSE AttemptFailed(i, "upstream")
    /\ UNCHANGED <<rnow, lruCaches>>
    /\ UNCHANGED nonResVars

\* withRetry: the backoff delay has elapsed.
RBackoffTimer ==
    /\ inv.pc = "backoff"
    /\ inv' = [inv EXCEPT !.pc = "limiter"]
    /\ UNCHANGED <<rnow, lruCaches>>
    /\ UNCHANGED nonResVars

\* withRetry: the context is done during the backoff delay: ctx.Err().
RBackoffCancel ==
    /\ inv.pc = "backoff"
    /\ inv.ctx # "live"
    /\ inv' = Returned(inv, "canceled", <<>>)
    /\ UNCHANGED <<rnow, lruCaches>>
    /\ UNCHANGED nonResVars

\* The body of the 200 answer does not decode: "failed to decode response".
RDecodeFails ==
    /\ inv.pc = "decode"
    /\ inv' = Returned(inv, "decode", <<>>)
    /\ UNCHANGED <<rnow, lruCaches>>
    /\ UNCHANGED nonResVars

\* The body of the 200 answer decodes. geocodeQuery caches the result list
\* and returns it; HandleReverseGeocode converts the result and caches the
\* place if the conversion succeeds.
RDecode(body) ==
    /\ inv.pc = "decode"
    /\ body \in (IF inv.kind = "forward" THEN SearchResults
                 ELSE {<<r>> : r \in ReverseResults})
    /\ LET stored == inv.kind = "forward" \/ body[1].valid
           i == IF stored THEN [inv EXCEPT !.effects = Bump(@, "cacheWrites")]
                ELSE inv
       IN  /\ inv' = Returned(i, IF body = <<>> THEN "empty" ELSE "results", body)
           /\ lruCaches' =
                 IF stored
                 THEN [lruCaches EXCEPT ![inv.kind] =
                          MapPut(@, LookupKey(inv), [val |-> body, storedAt |-> rnow])]
                 ELSE lruCaches
    /\ UNCHANGED rnow
    /\ UNCHANGED nonResVars

\* The context of the invocation is cancelled or its deadline passes.
\* History: cancelledAt records where the invocation was.
RCancel ==
    /\ inv.pc \notin {"idle", "done"}
    /\ inv.ctx = "live"
    /\ inv' = [inv EXCEPT !.ctx = "done", !.cancelledAt = inv.pc]
    /\ UNCHANGED <<rnow, lruCaches>>
    /\ UNCHANGED nonResVars

\* Time passes between two invocations.
RTick ==
    /\ inv.pc \in {"idle", "done"}
    /\ rnow + HourStep <= MaxHours
    /\ rnow' = rnow + HourStep
    /\ UNCHANGED <<lruCaches, inv>>
    /\ UNCHANGED nonResVars

NextResolve ==
    \/ \E addr \in ResolveAddresses : RInvokeForward(addr)
    \/ \E lat \in Latitudes, lon \in Longitudes : RInvokeReverse(lat, lon)
    \/ RCacheGet
    \/ \E grant \in {"now", "later", "refuse"} : RLimiter(grant)
    \/ RLimiterTimer
    \/ RLimiterCancel
    \/ \E answer \in Upstream : RHttp(answer)
    \/ RBackoffTimer
    \/ RBackoffCancel
    \/ RDecodeFails
    \/ \E body \in SearchResults \cup {<<r>> : r \in ReverseResults} : RDecode(body)
    \/ RCancel
    \/ RTick

-----------
-----------------------------------------------------------------------------
(***************************************************************************)
(* pkg/osm polyline codec: EncodePolyline and DecodePolyline.  A           *)
(* coordinate is a float64 number of degrees in the code; here it is an    *)
(* integer number of micro-degrees (1e-6), so that a multiple of 1e-5 is   *)
(* a multiple of 10 and scaling by 1e5 with math.Round is a division by 10 *)
(* rounded half away from zero.  A string is the sequence of its bytes.    *)
(* The largest zig-zag value of a delta between valid coordinates is       *)
(* 72000001, below 2^31: no shift overflows an int of either width.        *)
(***************************************************************************)
MaxPoints == 2

\* Latitudes and longitudes of the inputs, in micro-degrees: the ends of the
\* valid range, small values on both sides of zero whose deltas take one
\* chunk and two, and values that are not multiples of 1e-5.
PolyLatitudes == {-90000000, -10, 0, 160, 90000000, 5}
PolyLongitudes == {-180000000, -160, 0, 10, 180000000, -15}

Locations == [lat : PolyLatitudes, lng : PolyLongitudes]

PointLists == UNION {[1..n -> Locations] : n \in 0..MaxPoints}

\* The points and the strings of TestEncodePolyline and TestDecodePolyline.
TestPoints ==
    <<[lat |-> 38500000, lng |-> -120200000],
      [lat |-> 40700000, lng |-> -120950000],
      [lat |-> 43252000, lng |-> -126453000]>>

TestLists ==
    {SubSeq(TestPoints, 1, 1), TestPoints,
     <<[lat |-> -25363882, lng |-> 131044922]>>}

\* "_p~iF~ps|U"
SinglePointString == <<95, 112, 126, 105, 70, 126, 112, 115, 124, 85>>

\* "_p~iF~ps|U_ulLnnqC_mqNvxq`@"
MultiplePointsString ==
    <<95, 112, 126, 105, 70, 126, 112, 115, 124, 85, 95, 117, 108, 76, 110,
      110, 113, 67, 95, 109, 113, 78, 118, 120, 113, 96, 64>>

\* "", the two strings above and "f{xyCwuy~W"
TestStrings ==
    {<<>>, SinglePointString, MultiplePointsString,
     <<102, 123, 120, 121, 67, 119, 117, 121, 126, 87>>}

\* float64(n) * 1e-5
FromE5(n) == n * 10

\* byte(x)
Byte(x) == x % 256

\* The loop of encodeSigned: five bits at a time, low bits first.
RECURSIVE EncodeChunks(_)
EncodeChunks(s) ==
    IF s >= 32
    THEN <<Byte((32 + (s % 32)) + 63)>> \o EncodeChunks(s \div 32)
    ELSE <<Byte(s + 63)>>

\* encodeSigned that drops the sign of the value.
encodeSignedNoSign(value) ==
    EncodeChunks(IF value < 0 THEN (-value) * 2 ELSE value * 2)

\* encodeSigned: s := value << 1; if value < 0 { s = ^s }
encodeSigned(value) ==
    EncodeChunks(IF value < 0 THEN -(value * 2) - 1 ELSE value * 2)

RECURSIVE EncodeFrom(_, _, _)
EncodeFrom(ps, prevLat, prevLng) ==
    IF ps = <<>> THEN <<>>
    ELSE LET lat == RoundE5(Head(ps).lat)
             lng == RoundE5(Head(ps).lng)
         IN  encodeSigned(lat - prevLat) \o encodeSigned(lng - prevLng)
                 \o EncodeFrom(Tail(ps), lat, lng)

EncodePolyline(ps) == EncodeFrom(ps, 0, 0)

\* One inner loop of DecodePolyline, from the byte at index (counted from
\* zero).  The chunks or-ed into result are below the shift of the next one,
\* so that the or is a sum.
RECURSIVE ReadValue(_, _, _, _)
ReadValue(enc, index, result, shift) ==
    IF index >= Len(enc) THEN [result |-> result, index |-> index]
    ELSE LET b == enc[index + 1] - 63
             r == result + (b % 32) * (2 ^ shift)
         IN  IF b < 32 THEN [result |-> r, index |-> index + 1]
             ELSE ReadValue(enc, index + 1, r, shift + 5)

\* The sign fix without the inversion of odd values.
SignFixNoInvert(result) == result \div 2

\* (result >> 1) ^ (-(result & 1))
SignFix(result) ==
    IF result % 2 = 1 THEN -(result \div 2) - 1 ELSE result \div 2

RECURSIVE DecodeFrom(_, _, _, _)
DecodeFrom(enc, index, lat, lng) ==
    IF index >= Len(enc) THEN <<>>
    ELSE LET a == ReadValue(enc, index, 0, 0)
             newLat == lat + SignFix(a.result)
             b == ReadValue(enc, a.index, 0, 0)
             newLng == lng + SignFix(b.result)
         IN  <<[lat |-> FromE5(newLat), lng |-> FromE5(newLng)]>>
                 \o DecodeFrom(enc, b.index, newLat, newLng)

DecodePolyline(enc) == DecodeFrom(enc, 0, 0, 0)

\* A round trip of a list of points, or the decoding of a given string.
InitPolyline ==
    \/ /\ points \in PointLists \cup TestLists
       /\ encoded = <<>>
       /\ decoded = <<>>
       /\ polyPc = "input"
    \/ /\ points = <<>>
       /\ encoded \in TestStrings
       /\ decoded = <<>>
       /\ polyPc = "string"

\* The codec before any use.
PolyUnused ==
    /\ points = <<>>
    /\ encoded = <<>>
    /\ decoded = <<>>
    /\ polyPc = "idle"

PolyEncode ==
    /\ polyPc = "input"
    /\ encoded' = EncodePolyline(points)
    /\ polyPc' = "encoded"
    /\ UNCHANGED <<points, decoded>>
    /\ UNCHANGED nonPolyVars

PolyDecode ==
    /\ polyPc \in {"encoded", "string"}
    /\ decoded' = DecodePolyline(encoded)
    /\ polyPc' = IF polyPc = "encoded" THEN "decoded" ELSE "parsed"
    /\ UNCHANGED <<points, encoded>>
    /\ UNCHANGED nonPolyVars

NextPolyline == PolyEncode \/ PolyDecode

-----------------------------------------------------------------------------
(***************************************************************************)
(* pkg/server Server: RunWithContext started in one goroutine, and callers *)
(* that call Shutdown or cancel the context and then WaitForShutdown.      *)
(* A channel is "open" or "closed"; a receive from it waits until it is    *)
(* closed.                                                                 *)
(***************************************************************************)
Clients == {"c1", "c2"}

NewServer == [running |-> FALSE, stopCh |-> "open", doneCh |-> "open",
              ctx |-> "live"]

\* The goroutine of RunWithContext has been created and has not run yet.
InitServer ==
    /\ server = NewServer
    /\ spc = [p \in {"run", "watch", "serve"} \cup Clients |->
                 IF p = "run" THEN "start"
                 ELSE IF p \in Clients THEN "call" ELSE "none"]

\* No server has been created.
ServerUnused ==
    /\ server = NewServer
    /\ spc = [p \in {"run", "watch", "serve"} \cup Clients |-> "none"]

\* Shutdown, under s.mu: nothing unless running; close(stopCh) once.
Shutdown(s) == IF ~s.running THEN s ELSE [s EXCEPT !.stopCh = "closed"]

\* RunWithContext: start the goroutine that watches the context, call Run.
RunWithContext ==
    /\ spc["run"] = "start"
    /\ spc' = [spc EXCEPT !["run"] = "lock", !["watch"] = "select"]
    /\ UNCHANGED server
    /\ UNCHANGED nonSrvVars

\* Run, under s.mu: return if running, else set running.
RunLock ==
    /\ spc["run"] = "lock"
    /\ IF server.running
       THEN /\ spc' = [spc EXCEPT !["run"] = "returned"]
            /\ UNCHANGED server
       ELSE /\ server' = [server EXCEPT !.running = TRUE]
            /\ spc' = [spc EXCEPT !["run"] = "go"]
    /\ UNCHANGED nonSrvVars

\* Run: start the goroutine of server.ServeStdio.
RunServe ==
    /\ spc["run"] = "go"
    /\ spc' = [spc EXCEPT !["run"] = "waitStop", !["serve"] = "serving"]
    /\ UNCHANGED server
    /\ UNCHANGED nonSrvVars

\* Run: <-s.stopCh
RunStopped ==
    /\ spc["run"] = "waitStop"
    /\ server.stopCh = "closed"
    /\ spc' = [spc EXCEPT !["run"] = "unlock"]
    /\ UNCHANGED server
    /\ UNCHANGED nonSrvVars

\* Run, under s.mu: s.running = false
RunNotRunning ==
    /\ spc["run"] = "unlock"
    /\ server' = [server EXCEPT !.running = FALSE]
    /\ spc' = [spc EXCEPT !["run"] = "waitDone"]
    /\ UNCHANGED nonSrvVars

\* Run: <-s.doneCh; return nil
RunReturn ==
    /\ spc["run"] = "waitDone"
    /\ server.doneCh = "closed"
    /\ spc' = [spc EXCEPT !["run"] = "returned"]
    /\ UNCHANGED server
    /\ UNCHANGED nonSrvVars

\* ServeStdio returns, at the end of its input or on an error, and the
\* goroutine closes doneCh.  Nothing in Server makes it return.
ServeReturn ==
    /\ spc["serve"] = "serving"
    /\ server' = [server EXCEPT !.doneCh = "closed"]
    /\ spc' = [spc EXCEPT !["serve"] = "returned"]
    /\ UNCHANGED nonSrvVars

\* The goroutine of RunWithContext: case <-ctx.Done(): s.Shutdown()
WatchCancelled ==
    /\ spc["watch"] = "select"
    /\ server.ctx = "done"
    /\ server' = Shutdown(server)
    /\ spc' = [spc EXCEPT !["watch"] = "returned"]
    /\ UNCHANGED nonSrvVars

\* The goroutine of RunWithContext: case <-s.stopCh
WatchStopped ==
    /\ spc["watch"] = "select"
    /\ server.stopCh = "closed"
    /\ spc' = [spc EXCEPT !["watch"] = "returned"]
    /\ UNCHANGED server
    /\ UNCHANGED nonSrvVars

\* A caller calls s.Shutdown().
ClientShutdown(c) ==
    /\ spc[c] = "call"
    /\ server' = Shutdown(server)
    /\ spc' = [spc EXCEPT ![c] = "wait"]
    /\ UNCHANGED nonSrvVars

\* A caller cancels the context given to RunWithContext.
ClientCancel(c) ==
    /\ spc[c] = "call"
    /\ server' = [server EXCEPT !.ctx = "done"]
    /\ spc' = [spc EXCEPT ![c] = "wait"]
    /\ UNCHANGED nonSrvVars

\* WaitForShutdown: <-s.doneCh
WaitForShutdown(c) ==
    /\ spc[c] = "wait"
    /\ server.doneCh = "closed"
    /\ spc' = [spc EXCEPT ![c] = "returned"]
    /\ UNCHANGED server
    /\ UNCHANGED nonSrvVars

NextServer ==
    \/ RunWithContext
    \/ RunLock
    \/ RunServe
    \/ RunStopped
    \/ RunNotRunning
    \/ RunReturn
    \/ ServeReturn
    \/ WatchCancelled
    \/ WatchStopped
    \/ \E c \in Clients : ClientShutdown(c)
    \/ \E c \in Clients : ClientCancel(c)
    \/ \E c \in Clients : WaitForShutdown(c)

-----------------------------------------------------------------------------
(***************************************************************************)
(* pkg/osm cache.go: the generic TTLCache with its sync.RWMutex.  A call   *)
(* takes the lock, works on the map and releases the lock in separate      *)
(* steps, so that the holders of the lock during a step on the map are     *)
(* part of the state.  A write of the map that overlaps another access is  *)
(* a data race: it completes, or the runtime stops the program with a      *)
(* fatal error.                                                            *)
(***************************************************************************)
OCallers == {"g1", "g2"}
OKeys == {"k1"}
OOps == {"Get", "Set", "Delete", "Clear", "Cleanup"}

\* The ttl of the cache and the last instant considered, in ticks.
OsmTTL == 1
MaxOsmNow == 2

NewOsmCache ==
    [items |-> EmptyMap, readers |-> {}, writer |-> "none", now |-> 0,
     fatal |-> FALSE]

OIdle == [pc |-> "idle", op |-> "none", key |-> "none", found |-> FALSE]

InitOsm ==
    /\ osm = NewOsmCache
    /\ ocall = [c \in OCallers |-> OIdle]

OsmUnused ==
    /\ osm = NewOsmCache
    /\ ocall = [c \in OCallers |-> OIdle]

\* time.Now().After(item.expiresAt)
OExpired(item, now) == now > item.expiresAt

\* A caller calls Get, Set, Delete, Clear or Cleanup.
OCall(c, op, k) ==
    /\ ~osm.fatal
    /\ ocall[c].pc = "idle"
    /\ ocall' = [ocall EXCEPT ![c] =
                    [pc |-> IF op = "Get" THEN "RLock" ELSE "Lock",
                     op |-> op, key |-> k, found |-> FALSE]]
    /\ UNCHANGED osm
    /\ UNCHANGED nonOsmVars

\* c.mu.RLock()
ORLock(c) ==
    /\ ~osm.fatal
    /\ ocall[c].pc = "RLock"
    /\ osm.writer = "none"
    /\ osm' = [osm EXCEPT !.readers = @ \cup {c}]
    /\ ocall' = [ocall EXCEPT ![c].pc = "read"]
    /\ UNCHANGED nonOsmVars

\* Get: the lookup and the test of the expiry; an expired item is to be
\* deleted.
OGetRead(c) ==
    /\ ~osm.fatal
    /\ ocall[c].pc = "read"
    /\ LET k == ocall[c].key
       IN  IF k \notin DOMAIN osm.items
           THEN ocall' = [ocall EXCEPT ![c].pc = "RUnlock"]
           ELSE IF OExpired(osm.items[k], osm.now)
           THEN ocall' = [ocall EXCEPT ![c].pc = "delete"]
           ELSE ocall' = [ocall EXCEPT ![c].pc = "RUnlock", ![c].found = TRUE]
    /\ UNCHANGED osm
    /\ UNCHANGED nonOsmVars

\* Get: delete(c.items, key), with the read lock held.  With another holder
\* of the read lock the runtime may report the concurrent access.
OGetDelete(c) ==
    /\ ~osm.fatal
    /\ ocall[c].pc = "delete"
    /\ \/ /\ osm' = [osm EXCEPT !.items = MapDelete(@, {ocall[c].key})]
          /\ ocall' = [ocall EXCEPT ![c].pc = "RUnlock"]
       \/ /\ osm.readers # {c}
          /\ osm' = [osm EXCEPT !.fatal = TRUE]
          /\ UNCHANGED ocall
    /\ UNCHANGED nonOsmVars

\* c.mu.RUnlock(), deferred.
ORUnlock(c) ==
    /\ ~osm.fatal
    /\ ocall[c].pc = "RUnlock"
    /\ osm' = [osm EXCEPT !.readers = @ \ {c}]
    /\ ocall' = [ocall EXCEPT ![c].pc = "idle"]
    /\ UNCHANGED nonOsmVars

\* c.mu.Lock()
OLock(c) ==
    /\ ~osm.fatal
    /\ ocall[c].pc = "Lock"
    /\ osm.writer = "none"
    /\ osm.readers = {}
    /\ osm' = [osm EXCEPT !.writer = c]
    /\ ocall' = [ocall EXCEPT ![c].pc = "write"]
    /\ UNCHANGED nonOsmVars

\* The map after Set, Delete, Clear or Cleanup.
OWritten(op, k, m, now) ==
    IF op = "Set" THEN MapPut(m, k, [expiresAt |-> now + OsmTTL])
    ELSE IF op = "Delete" THEN MapDelete(m, {k})
    ELSE IF op = "Clear" THEN EmptyMap
    ELSE MapDelete(m, {x \in DOMAIN m : OExpired(m[x], now)})

\* Set, Delete, Clear, Cleanup: the work on the map.
OWrite(c) ==
    /\ ~osm.fatal
    /\ ocall[c].pc = "write"
    /\ osm' = [osm EXCEPT
                 !.items = OWritten(ocall[c].op, ocall[c].key, @, osm.now)]
    /\ ocall' = [ocall EXCEPT ![c].pc = "Unlock"]
    /\ UNCHANGED nonOsmVars

\* c.mu.Unlock(), deferred.
OUnlock(c) ==
    /\ ~osm.fatal
    /\ ocall[c].pc = "Unlock"
    /\ osm' = [osm EXCEPT !.writer = "none"]
    /\ ocall' = [ocall EXCEPT ![c].pc = "idle"]
    /\ UNCHANGED nonOsmVars

\* Time passes.
OTick ==
    /\ ~osm.fatal
    /\ osm.now < MaxOsmNow
    /\ osm' = [osm EXCEPT !.now = @ + 1]
    /\ UNCHANGED ocall
    /\ UNCHANGED nonOsmVars

NextOsmCache ==
    \/ \E c \in OCallers, op \in OOps, k \in OKeys : OCall(c, op, k)
    \/ \E c \in OCallers : ORLock(c)
    \/ \E c \in OCallers : OGetRead(c)
    \/ \E c \in OCallers : OGetDelete(c)
    \/ \E c \in OCallers : ORUnlock(c)
    \/ \E c \in OCallers : OLock(c)
    \/ \E c \in OCallers : OWrite(c)
    \/ \E c \in OCallers : OUnlock(c)
    \/ OTick

-----------------------------------------------------------------------------
(***************************************************************************)
(* pkg/cache TTLCache, twice: one sequence of Set, Get, Delete and Clear   *)
(* calls and clock advances is applied to a cache whose cleanup ticker     *)
(* runs deleteExpired at arbitrary points (swept) and to a cache whose     *)
(* ticker never runs (unswept).  The calls are sequential, so each is one  *)
(* step.  Both caches have the capacity maxItems.  evictOldest may choose  *)
(* among entries of equal expiration, in each cache on its own: matched    *)
(* records whether every choice of one cache had a choice of the other     *)
(* that keeps the same unexpired entries.                                   *)
(***************************************************************************)
TwinMaxNow == 3
TwinKeys == {"k1", "k2", "k3"}
\* No expiration, and expirations one and two ticks ahead.
TwinTTLs == {0, 1, 2}
\* The keys Get is called with: the keys are interchangeable, so one suffices.
TwinGetKeys == {"k1"}

NoGet == [found |-> FALSE, value |-> "nil"]

NewTwin ==
    [swept |-> EmptyMap, unswept |-> EmptyMap, now |-> 1,
     last |-> "other", gets |-> <<NoGet, NoGet>>, matched |-> TRUE,
     removed |-> {}, evicted |-> FALSE]

InitTwin == twin = NewTwin

TwinUnused == twin = NewTwin

\* The entries of m a Get at time t would find.
Live(m, t) == [k \in {x \in DOMAIN m : ~Expired(m[x], t)} |-> m[k]]

\* SetWithTTL: the sets of keys the eviction may delete from the map after
\* the store.
Evictions(stored) ==
    IF maxItems > 0 /\ Cardinality(DOMAIN stored) > maxItems
    THEN EvictOldest(stored) ELSE {{}}

\* TTLCache.SetWithTTL on both caches.
TwinSet(key, value, ttl) ==
    LET item == [Value |-> value, Expiration |-> ExpirationFor(ttl, twin.now)]
        s1 == MapPut(twin.swept, key, item)
        s2 == MapPut(twin.unswept, key, item)
        Same(R1, R2) ==
            Live(MapDelete(s1, R1), twin.now) = Live(MapDelete(s2, R2), twin.now)
        matchable ==
            /\ \A R1 \in Evictions(s1) : \E R2 \in Evictions(s2) : Same(R1, R2)
            /\ \A R2 \in Evictions(s2) : \E R1 \in Evictions(s1) : Same(R1, R2)
    IN  /\ \E R1 \in Evictions(s1), R2 \in Evictions(s2) :
              /\ matchable => Same(R1, R2)
              /\ twin' = [twin EXCEPT !.swept = MapDelete(s1, R1),
                                      !.unswept = MapDelete(s2, R2),
                                      !.last = "other", !.removed = {},
                                      !.matched = @ /\ matchable,
                                      !.evicted = @ \/ R2 # {}]
        /\ UNCHANGED nonTwinVars

\* TTLCache.Get run to its end on a map at time t: the result and the map.
GetOn(m, key, t) ==
    IF key \notin DOMAIN m THEN [res |-> NoGet, map |-> m]
    ELSE IF Expired(m[key], t)
    THEN [res |-> NoGet, map |-> MapDelete(m, {key})]
    ELSE [res |-> [found |-> TRUE, value |-> m[key].Value], map |-> m]

\* TTLCache.Get on both caches.
TwinGet(key) ==
    /\ twin' = [twin EXCEPT
                  !.swept = GetOn(@, key, twin.now).map,
                  !.unswept = GetOn(@, key, twin.now).map,
                  !.last = "Get", !.removed = {},
                  !.gets = <<GetOn(twin.swept, key, twin.now).res,
                             GetOn(twin.unswept, key, twin.now).res>>]
    /\ UNCHANGED nonTwinVars

\* TTLCache.Delete on both caches.
TwinDelete(key) ==
    /\ key \in DOMAIN twin.unswept
    /\ twin' = [twin EXCEPT !.swept = MapDelete(@, {key}),
                            !.unswept = MapDelete(@, {key}),
                            !.last = "other", !.removed = {}]
    /\ UNCHANGED nonTwinVars

\* TTLCache.Clear on both caches.
TwinClear ==
    /\ twin.unswept # EmptyMap
    /\ twin' = [twin EXCEPT !.swept = EmptyMap, !.unswept = EmptyMap,
                            !.last = "other", !.removed = {}]
    /\ UNCHANGED nonTwinVars

\* deleteExpired, run by the cleanup ticker of the swept cache.
TwinSweep ==
    /\ SweepSet(twin.swept, twin.now) # {}
    /\ twin' = [twin EXCEPT
                  !.swept = MapDelete(@, SweepSet(twin.swept, twin.now)),
                  !.last = "other",
                  !.removed = {twin.swept[k] :
                                  k \in SweepSet(twin.swept, twin.now)}]
    /\ UNCHANGED nonTwinVars

\* The wall clock advances.
TwinTick ==
    /\ twin.now < TwinMaxNow
    /\ twin' = [twin EXCEPT !.now = @ + 1, !.last = "other",
                            !.removed = {}]
    /\ UNCHANGED nonTwinVars

NextSweep ==
    \/ \E key \in TwinKeys, value \in Values, ttl \in TwinTTLs :
          TwinSet(key, value, ttl)
    \/ \E key \in TwinGetKeys : TwinGet(key)
    \/ \E key \in TwinKeys : TwinDelete(key)
    \/ TwinClear
    \/ TwinSweep
    \/ TwinTick

-----------------------------------------------------------------------------
(***************************************************************************)
(* pkg/tools geocode.go: requestGroup, the one singleflight group that     *)
(* geocodeQuery and HandleReverseGeocode both call Do on, with concurrent  *)
(* callers of both. The two LRU caches are empty and stay out of the       *)
(* picture: a caller that reaches Do has missed its cache.                 *)
(***************************************************************************)
FlightCallers == {"h1", "h2"}

\* The query texts passed to geocodeQuery: "Ar", " 1.00000,2.00000" and
\* "-0.00000,2.00001".
FlightQueries ==
    {<<"A", "r">>,
     <<" ", "1", ".", "0", "0", "0", "0", "0", ",",
       "2", ".", "0", "0", "0", "0", "0">>,
     <<"-", "0", ".", "0", "0", "0", "0", "0", ",",
       "2", ".", "0", "0", "0", "0", "1">>}

\* The coordinates passed to reverse_geocode, in units of 1e-6 degrees:
\* 1.0, 1.000004, -0.000004 and 91.0; 2.0 and 2.000006.
FlightLatitudes == {1000000, 1000004, -4, 91000000}
FlightLongitudes == {2000000, 2000006}

\* What Do hands back: the value of fn as an interface{} with its dynamic
\* type, and whether fn returned an error.
NoFlightValue == [type |-> "nil", failed |-> FALSE]

NoFlightCall ==
    [pc |-> "idle", kind |-> "none", key |-> <<>>, attached |-> FALSE,
     leader |-> "none", got |-> NoFlightValue]

NewFlight ==
    [group |-> EmptyMap, callers |-> [c \in FlightCallers |-> NoFlightCall]]

InitFlight == flight = NewFlight

FlightUnused == flight = NewFlight

\* The dynamic type of the value the fn of each operation returns, which is
\* the type its caller asserts: []NominatimResult in geocodeQuery,
\* NominatimResult in HandleReverseGeocode.
ResultType(kind) ==
    IF kind = "forward" THEN "[]NominatimResult" ELSE "NominatimResult"

\* geocodeQuery(ctx, query) up to requestGroup.Do: the key is cacheKey(query)
\* and geocodeCache misses.
FlightForward(c, query) ==
    /\ flight.callers[c].pc = "idle"
    /\ flight' = [flight EXCEPT !.callers[c] =
                    [NoFlightCall EXCEPT !.pc = "do", !.kind = "forward",
                                         !.key = cacheKey(query)]]
    /\ UNCHANGED nonFlightVars

\* HandleReverseGeocode up to requestGroup.Do: coordinates out of range are
\* rejected; the key is reverseGeoCacheKey(latitude, longitude) and
\* reverseGeocodeCache misses.
FlightReverse(c, lat, lon) ==
    /\ flight.callers[c].pc = "idle"
    /\ flight' = [flight EXCEPT !.callers[c] =
                    IF \/ lat < Degrees(-90) \/ lat > Degrees(90)
                       \/ lon < Degrees(-180) \/ lon > Degrees(180)
                    THEN [NoFlightCall EXCEPT !.pc = "rejected",
                                              !.kind = "reverse"]
                    ELSE [NoFlightCall EXCEPT
                              !.pc = "do", !.kind = "reverse",
                              !.key = reverseGeoCacheKey(lat, lon)]]
    /\ UNCHANGED nonFlightVars

\* requestGroup.Do(key, fn), under the group's mutex: a caller that finds a
\* call for the key in flight attaches to it and waits; otherwise it
\* registers a call and runs its own fn.
FlightDo(c) ==
    LET call == flight.callers[c]
    IN  /\ call.pc = "do"
        /\ flight' =
             IF call.key \in DOMAIN flight.group
             THEN [flight EXCEPT !.callers[c].pc = "wait",
                                 !.callers[c].attached = TRUE,
                                 !.callers[c].leader = flight.group[call.key]]
             ELSE [flight EXCEPT !.callers[c].pc = "run",
                                 !.callers[c].leader = c,
                                 !.group = MapPut(@, call.key, c)]
        /\ UNCHANGED nonFlightVars

\* The fn of the caller that registered the call returns: the results of
\* /search decoded as []NominatimResult, the result of /reverse decoded as
\* NominatimResult, or an error. Do removes the call from the group and
\* returns what fn returned.
FlightFn(c, failed) ==
    LET call == flight.callers[c]
    IN  /\ call.pc = "run"
        /\ flight' =
             [flight EXCEPT
                 !.group = MapDelete(@, {call.key}),
                 !.callers[c].pc = "returned",
                 !.callers[c].got =
                     IF failed THEN [type |-> "nil", failed |-> TRUE]
                     ELSE [type |-> ResultType(call.kind), failed |-> FALSE]]
        /\ UNCHANGED nonFlightVars

\* Do of a caller attached to a call in flight: the call has completed and Do
\* returns the value and the error of that call.
FlightShared(c) ==
    LET call == flight.callers[c]
    IN  /\ call.pc = "wait"
        /\ flight.callers[call.leader].pc \in {"returned", "done", "panic"}
        /\ flight' = [flight EXCEPT
                         !.callers[c].pc = "returned",
                         !.callers[c].got = flight.callers[call.leader].got]
        /\ UNCHANGED nonFlightVars

\* After Do: an error is reported; otherwise the value is asserted to the
\* type of the operation, result.([]NominatimResult) in geocodeQuery and
\* responseData.(NominatimResult) in HandleReverseGeocode, and the assertion
\* panics on a value of another dynamic type.
FlightAssert(c) ==
    LET call == flight.callers[c]
    IN  /\ call.pc = "returned"
        /\ flight' = [flight EXCEPT !.callers[c].pc =
                         IF call.got.failed \/ call.got.type = ResultType(call.kind)
                         THEN "done" ELSE "panic"]
        /\ UNCHANGED nonFlightVars

NextFlight ==
    \/ \E c \in FlightCallers, query \in FlightQueries : FlightForward(c, query)
    \/ \E c \in FlightCallers, lat \in FlightLatitudes,
          lon \in FlightLongitudes : FlightReverse(c, lat, lon)
    \/ \E c \in FlightCallers : FlightDo(c)
    \/ \E c \in FlightCallers, failed \in BOOLEAN : FlightFn(c, failed)
    \/ \E c \in FlightCallers : FlightShared(c)
    \/ \E c \in FlightCallers : FlightAssert(c)

-----------------------------------------------------------------------------
(***************************************************************************)
(* Specifications                                                          *)
(***************************************************************************)
\* The request executor: concurrent geocodeQuery calls.
Init ==
    InitGeo /\ CacheUnused /\ LimUnused /\ ToolsUnused /\ PipeUnused
    /\ ResolveUnused /\ PolyUnused /\ ServerUnused
    /\ OsmUnused /\ TwinUnused /\ FlightUnused
Spec == Init /\ [][Next]_vars

InitSpecCache ==
    InitCache /\ LimUnused /\ ToolsUnused /\ GeoUnused /\ PipeUnused
    /\ ResolveUnused /\ PolyUnused /\ ServerUnused
    /\ OsmUnused /\ TwinUnused /\ FlightUnused
SpecCache == InitSpecCache /\ [][NextCache]_vars

InitSpecLimiter ==
    InitLimiter /\ CacheUnused /\ ToolsUnused /\ GeoUnused /\ PipeUnused
    /\ ResolveUnused /\ PolyUnused /\ ServerUnused
    /\ OsmUnused /\ TwinUnused /\ FlightUnused
SpecLimiter == InitSpecLimiter /\ [][NextLimiter]_vars

InitSpecTools ==
    InitTools /\ CacheUnused /\ LimUnused /\ GeoUnused /\ PipeUnused
    /\ ResolveUnused /\ PolyUnused /\ ServerUnused
    /\ OsmUnused /\ TwinUnused /\ FlightUnused
SpecTools == InitSpecTools /\ [][NextTools]_vars

\* HandleGeocodeAddress over all addresses.
InitSpecFallback ==
    InitFallback /\ CacheUnused /\ LimUnused /\ ToolsUnused /\ GeoUnused
    /\ ResolveUnused /\ PolyUnused /\ ServerUnused
    /\ OsmUnused /\ TwinUnused /\ FlightUnused
SpecFallback == InitSpecFallback /\ [][NextPipeline]_vars

\* Invocations of HandleGeocodeAddress and HandleReverseGeocode.
InitSpecResolve ==
    InitResolve /\ CacheUnused /\ LimUnused /\ ToolsUnused /\ GeoUnused
    /\ PipeUnused /\ PolyUnused /\ ServerUnused
    /\ OsmUnused /\ TwinUnused /\ FlightUnused
SpecResolve == InitSpecResolve /\ [][NextResolve]_vars

\* HandleGeocodeAddress over all result lists.
InitSpecRank ==
    InitRank /\ CacheUnused /\ LimUnused /\ ToolsUnused /\ GeoUnused
    /\ ResolveUnused /\ PolyUnused /\ ServerUnused
    /\ OsmUnused /\ TwinUnused /\ FlightUnused
SpecRank == InitSpecRank /\ [][NextPipeline]_vars

\* One round trip of the polyline codec over all lists of points.
InitSpecPolyline ==
    InitPolyline /\ CacheUnused /\ LimUnused /\ ToolsUnused /\ GeoUnused
    /\ PipeUnused /\ ResolveUnused /\ ServerUnused /\ OsmUnused
    /\ TwinUnused /\ FlightUnused
SpecPolyline == InitSpecPolyline /\ [][NextPolyline]_vars

\* The start and the shutdown of the server.
InitSpecServer ==
    InitServer /\ CacheUnused /\ LimUnused /\ ToolsUnused /\ GeoUnused
    /\ PipeUnused /\ ResolveUnused /\ PolyUnused /\ OsmUnused
    /\ TwinUnused /\ FlightUnused
SpecServer == InitSpecServer /\ [][NextServer]_vars

\* Concurrent calls on the TTLCache of pkg/osm.
InitSpecOsmCache ==
    InitOsm /\ CacheUnused /\ LimUnused /\ ToolsUnused /\ GeoUnused
    /\ PipeUnused /\ ResolveUnused /\ PolyUnused /\ ServerUnused
    /\ TwinUnused /\ FlightUnused
SpecOsmCache == InitSpecOsmCache /\ [][NextOsmCache]_vars

\* One call sequence on a swept and an unswept cache of capacity maxItems.
InitSpecSweep ==
    InitTwin /\ InitCache /\ LimUnused /\ ToolsUnused /\ GeoUnused
    /\ PipeUnused /\ ResolveUnused /\ PolyUnused /\ ServerUnused
    /\ OsmUnused /\ FlightUnused
SpecSweep == InitSpecSweep /\ [][NextSweep]_vars

\* Concurrent forward and reverse lookups on the shared requestGroup.
InitSpecFlight ==
    InitFlight /\ CacheUnused /\ LimUnused /\ ToolsUnused /\ GeoUnused
    /\ PipeUnused /\ ResolveUnused /\ PolyUnused /\ ServerUnused
    /\ OsmUnused /\ TwinUnused
SpecFlight == InitSpecFlight /\ [][NextFlight]_vars

-----------------------------------------------------------------------------
(***************************************************************************)
(* Claims                                                                  *)
(***************************************************************************)

\* The callers that have called Wait, those it returned nil to, and those
\* blocked in it.
LCalled == {c \in LCallers : waiters[c].pc # "idle"}
LOk == {c \in LCallers : waiters[c].pc = "ok"}
LBlocked == {c \in LCallers : waiters[c].pc = "waiting"}

\* The parts of C3 about the calls that succeed: of the calls made to a fresh
\* bucket before any time has passed exactly min(burst, calls) have returned;
\* the calls that returned never outnumber burst plus the tokens replenished
\* since; and the calls that had to wait are due at least one token interval
\* apart.
C3_Released ==
    /\ ltime = 0 => Cardinality(LOk) = Min(bucket.burst, Cardinality(LCalled))
    /\ Cardinality(LOk) * TicksPerToken <= bucket.burst * TicksPerToken + ltime
    /\ \A c \in LOk \cup LBlocked : \A d \in (LOk \cup LBlocked) \ {c} :
          (waiters[c].timeToAct > waiters[c].calledAt
             /\ waiters[d].timeToAct > waiters[d].calledAt)
          => \/ waiters[c].timeToAct - waiters[d].timeToAct >= TicksPerToken
             \/ waiters[d].timeToAct - waiters[c].timeToAct >= TicksPerToken

WaitedOn(r, b) == r.waitedOn = b

\* C4 (as claimed): each service has a single token bucket, and every request
\* sent to the service by any tool handler waited on it, so that the requests
\* sent to a service by time t never outnumber its burst plus the tokens
\* replenished by t.
C4_EveryRequestRateLimited ==
    \A s \in Services :
        \E b \in Registries \X {s} :
            /\ \A r \in sentLog : r.service = s => WaitedOn(r, b)
            /\ Cardinality({r \in sentLog : r.service = s}) * limiters[b].every
                  <= limiters[b].burst * limiters[b].every + ttime

\* What a Get(key) issued in the current state, run without interruption, returns.
GetNow(key) ==
    IF key \in DOMAIN items /\ ~Expired(items[key], clock)
    THEN [found |-> TRUE, value |-> items[key].Value]
    ELSE [found |-> FALSE, value |-> "nil"]

\* C5 (as claimed): a Get never reports found once the clock has passed the
\* expiration of the entry it read, and an entry stored with ttl <= 0 (no
\* expiration) is never removed as expired, neither by Get's lazy delete nor
\* by the background sweep.
C5_NoExpirationNeverExpires ==
    /\ (lastOp.op = "Get" /\ lastOp.found) =>
          (lastOp.item.Expiration = 0 \/ clock <= lastOp.item.Expiration)
    /\ lastOp.op \in {"Get", "Sweep"} =>
          \A r \in lastOp.removed : r.Expiration # 0

\* C6 (as claimed): right after SetWithTTL(key, value, ttl) with ttl > 0, with no
\* step and no clock advance in between, Get(key) returns found = true with
\* that value.
C6_SetThenGet ==
    (lastOp.op = "Set" /\ lastOp.ttl > 0) =>
        GetNow(lastOp.key) = [found |-> TRUE, value |-> lastOp.value]

\* e1 expires no later than e2, an entry without expiration (0) expiring last.
ExpiresNoLater(e1, e2) == e2 = 0 \/ (e1 # 0 /\ e1 <= e2)

\* C7: the cache never holds more than maxItems entries; a Set that makes the
\* map hold maxItems + 1 entries leaves exactly maxItems; every evicted entry
\* expires no later than every entry kept; and an entry without expiration is
\* evicted only if no entry with an expiration is kept.
C7_Eviction ==
    /\ Cardinality(DOMAIN items) <= maxItems
    /\ lastOp.op = "Set" =>
          /\ Cardinality(DOMAIN items) =
                (IF lastOp.inserted > maxItems THEN maxItems ELSE lastOp.inserted)
          /\ \A e \in lastOp.evicted : \A k \in DOMAIN items :
                ExpiresNoLater(e, items[k].Expiration)
          /\ 0 \in lastOp.evicted =>
                \A k \in DOMAIN items : items[k].Expiration = 0

\* C7 witness: a Set pushed the map over maxItems, an entry with an expiration
\* was evicted and an entry without expiration was kept.
C7_Witness ==
    /\ lastOp.op = "Set"
    /\ lastOp.inserted = maxItems + 1
    /\ lastOp.evicted # {}
    /\ 0 \notin lastOp.evicted
    /\ \E k \in DOMAIN items : items[k].Expiration = 0
    /\ Cardinality(DOMAIN items) = maxItems


\* The callers of geocodeQuery(key) that began before any call had returned.
Concurrent(k) == {c \in GCallers : gq[c].key = k /\ gq[c].early}

\* The runs of the request function on behalf of a set of callers.
FnRuns(S) == {c \in S : gq[c].leader = c}

\* C1: M resolutions of one key started concurrently against an empty cache
\* run the request function exactly once and all return the same result or
\* the same error, whatever the interleaving.
C1_Coalescing ==
    \A k \in GKeys :
        (/\ Concurrent(k) # {}
         /\ \A c \in Concurrent(k) : gq[c].pc = "done")
        => /\ Cardinality(FnRuns(Concurrent(k))) = 1
           /\ \A c, d \in Concurrent(k) : gq[c].result = gq[d].result

Failed(outcome) == outcome # "200"

\* C2: with the context never cancelled, withRetry makes at most maxRetries
\* attempts, waits initialBackoff * 2^(k-1) before the k-th retry, and returns
\* success as soon as an attempt succeeds; it fails only after maxRetries
\* failed attempts.
C2_RetryBackoff ==
    \A c \in GCallers :
        ~ctxDone[c] =>
            LET q == gq[c]
                n == Len(q.outcomes)
            IN  /\ n <= maxRetries
                /\ \A i \in 1..(n - 1) : Failed(q.outcomes[i])
                /\ Len(q.backoffs) \in {n - 1, n} \/ n = 0
                /\ \A k \in 1..Len(q.backoffs) :
                       q.backoffs[k] = initialBackoff * 2^(k - 1)
                /\ q.retry = NoErr <=> (n > 0 /\ q.outcomes[n] = "200")
                /\ q.retry \notin {NoErr, Pending}
                       => /\ n = maxRetries
                          /\ q.retry = MaxRetriesErr(<<q.outcomes[n]>>)

\* A request whose first two attempts failed and whose third succeeded, after
\* delays of 500 ms and 1 s.
C2_Witness ==
    \E c \in GCallers :
        /\ ~ctxDone[c]
        /\ gq[c].outcomes = <<"transport", "status", "200">>
        /\ gq[c].backoffs = <<500, 1000>>
        /\ gq[c].pc = "done"
        /\ gq[c].result = [val |-> "R1", err |-> NoErr]

IsContextErr(err) ==
    err \in {ContextErr, MaxRetriesErr(ContextErr)}

\* C10: cancelling the context of one coalesced caller while another caller
\* waits for the same call does not cancel the shared request: the remaining
\* caller, whose own context is not done, does not receive the cancellation
\* as its result.
C10_CoalescedCancellation ==
    \A c, d \in GCallers :
        (/\ gq[c].pc = "done"
         /\ ~ctxDone[c]
         /\ gq[c].leader \notin {"none", c}
         /\ gq[d].leader = gq[c].leader
         /\ ctxDone[d]
         /\ gq[d].shared)
        => ~IsContextErr(gq[c].result.err)

NonEmpty(text) == text # <<>>

\* The candidate queries of an address in the order of the fallback: the text
\* without the parenthetical, the parenthetical content, the full original
\* text, each with the region context, empty texts left out, without
\* duplicates.
Candidates(addr, reg) ==
    LET sa == sanitizeAddress(addr)
        texts == SelectSeq(<<sa[1], sa[2]>>, NonEmpty) \o <<addr>>
    IN  Unique([i \in 1..Len(texts) |-> ensureRegion(texts[i], reg)])

\* C8: for a non-empty address the queries are attempted in the order text
\* without parenthetical, parenthetical content, full original text, without
\* duplicates; the next candidate is attempted exactly when the current one
\* failed or returned nothing, and none after the first one with results.
C8_Fallback ==
    LET cands == Candidates(address, region)
        n == Len(tried)
    IN  /\ Len(answers) = n
        /\ ppc = "start" \/ address = <<>> => n = 0
        /\ n <= Len(cands)
        /\ tried = SubSeq(cands, 1, n)
        /\ \A i \in 1..(n - 1) : answers[i] \in {"error", "empty"}
        /\ ppc = "loop" => /\ n < Len(cands)
                           /\ n > 0 => answers[n] \in {"error", "empty"}
        /\ ppc \in {"select", "done"} /\ address # <<>>
               => /\ n > 0
                  /\ answers[n] = "results" \/ n = Len(cands)

\* An address with three candidates: the first fails, the second returns
\* nothing, the third returns results and the resolution succeeds.
C8_Witness ==
    /\ ppc = "done"
    /\ Len(uniqueQueries) = 3
    /\ tried = uniqueQueries
    /\ answers = <<"error", "empty", "results">>
    /\ output.code = "OK"

MaxImportance(rs) == SeqMax({rs[i].Importance : i \in 1..Len(rs)})

\* C9: of the results of the winning query the best match returned is the
\* first in descending order of importance that reaches minImportance, or the
\* one of maximum importance when none does (in both cases a result of
\* maximum importance), and it is one of the candidates returned.
C9_RankAndSelect ==
    (ppc = "done" /\ output.code = "OK")
    => /\ output.Place[1].Importance = MaxImportance(allResults)
       /\ \E i \in 1..Len(output.Candidates) :
              output.Candidates[i] = output.Place[1]

\* C14: a wait for a service without a configured bucket returns at once,
\* consumes no token and reports no error.
C14_FailOpen ==
    \A t \in ToolCalls :
        calls[t].pc = "waited" => calls[t].err = <<>>

\* C15: once Update*RateLimits has returned for a service, every wait for
\* that service that begins afterwards, on any request path, is on a limiter
\* with the rate and burst that were set.
C15_Reconfigure ==
    \A r \in sentLog :
        (r.required # DefaultLimits /\ r.waitedOn[1] # "none")
        => r.limits = r.required

\* The calls that have called Wait on some limiter.
Waited == {t \in ToolCalls : calls[t].pc \in {"blocked", "sent", "failed"}}

\* C16 (as claimed): every bucket holds between 0 and burst tokens in every
\* reachable state.
C16_TokensInRange ==
    \A b \in DOMAIN limiters :
        /\ 0 <= limiters[b].tokens
        /\ limiters[b].tokens <= limiters[b].burst * limiters[b].every

\* C16 (amended): every bucket holds at most burst tokens in every reachable
\* state, now and when replenished up to the present; a Wait that has to
\* block takes its token in advance, so the count can be negative, by at most
\* one token for each Wait called.
C16_TokensAtMostBurst ==
    \A b \in DOMAIN limiters :
        /\ limiters[b].tokens <= limiters[b].burst * limiters[b].every
        /\ Advance(limiters[b], ttime) <= limiters[b].burst * limiters[b].every
        /\ limiters[b].tokens >= -(Cardinality(Waited) * limiters[b].every)

\* C16 witness: after a reconfiguration and the passing of time, a bucket is
\* in debt for a blocked call.
C16_Witness ==
    /\ ttime > 0
    /\ \E s \in Services : rateLimits[s] # DefaultLimits
    /\ \E t \in ToolCalls :
          /\ calls[t].pc = "blocked"
          /\ limiters[calls[t].on].tokens < 0

\* What the handler of an invocation reports when the upstream service has
\* failed on every attempt of every lookup.
UpstreamFailureResult(i) ==
    IF i.kind = "forward" THEN NoResultsError(i.address)
    ELSE ServiceError(i.latitude, i.longitude)

\* C11: a resolution whose context is done while it waits on the rate limiter
\* or in a backoff delay reports an outcome different from the one reported
\* when the upstream service failed on every attempt.
C11_CancellationDistinct ==
    (inv.pc = "done" /\ inv.cancelledAt \in {"limwait", "backoff"})
    => inv.out # UpstreamFailureResult(inv)

\* C12: HandleGeocodeAddress reports NO_RESULTS only if every candidate query
\* completed with zero matches, and SERVICE_ERROR if the queries failed
\* because the retries against the upstream service were exhausted.
C12_NoResultsOnlyWhenEmpty ==
    (inv.pc = "done" /\ inv.kind = "forward")
    => /\ inv.out.code = "NO_RESULTS"
            => \A k \in 1..Len(inv.causes) : inv.causes[k] = "empty"
       /\ (inv.causes # <<>>
             /\ \A k \in 1..Len(inv.causes) : inv.causes[k] = "upstream")
            => inv.out.code = "SERVICE_ERROR"

\* C13: an entry of the geocode cache or of the reverse-geocode cache is
\* served only while it is younger than cacheTTL.
C13_CacheLifetime == inv.hitAge < cacheTTL

InvalidInput(i) ==
    \/ i.kind = "forward" /\ i.address = <<>>
    \/ i.kind = "reverse" /\ (i.latitude < -90 \/ i.latitude > 90)
    \/ i.kind = "reverse" /\ (i.longitude < -180 \/ i.longitude > 180)

C18_ParseError ==
    (/\ inv.pc = "done"
     /\ inv.causes # <<>>
     /\ \A k \in 1..Len(inv.causes) : inv.causes[k] = "decode")
    => inv.out.code = "PARSE_ERROR"

ValidationCodes == {"EMPTY_ADDRESS", "INVALID_LATITUDE", "INVALID_LONGITUDE"}

\* C19: every terminal failure carries at least one suggestion unless it is
\* an input-validation error.
C19_Suggestions ==
    (inv.pc = "done" /\ inv.out.code # "OK" /\ inv.out.suggestions = 0)
    => inv.out.code \in ValidationCodes


\* The points of the round trip are multiples of 1e-5 degrees.
OnGrid == \A i \in 1..Len(points) : points[i].lat % 10 = 0 /\ points[i].lng % 10 = 0

Abs(x) == IF x < 0 THEN -x ELSE x

\* C20: for every list of points whose coordinates are multiples of 1e-5
\* degrees within the valid range, DecodePolyline(EncodePolyline(points)) has
\* the length of points, every decoded coordinate is within 1e-5 degrees of
\* the original, and the rounded 1e5-scaled coordinates are reproduced
\* exactly.
C20_PolylineRoundTrip ==
    (polyPc = "decoded" /\ OnGrid) =>
        /\ Len(decoded) = Len(points)
        /\ \A i \in 1..Len(points) :
            /\ Abs(decoded[i].lat - points[i].lat) <= 10
            /\ Abs(decoded[i].lng - points[i].lng) <= 10
            /\ decoded[i].lat = FromE5(RoundE5(points[i].lat))
            /\ decoded[i].lng = FromE5(RoundE5(points[i].lng))

\* A round trip of two points at opposite ends of the valid range: negative
\* deltas and deltas of six chunks.
C20_Witness ==
    /\ polyPc = "decoded"
    /\ OnGrid
    /\ Len(points) = 2
    /\ points[1] = [lat |-> 90000000, lng |-> -180000000]
    /\ points[2] = [lat |-> -90000000, lng |-> 180000000]
    /\ Len(encoded) = 23
    /\ decoded = points


\* The zig-zag value of a signed delta in the standard format.
StdZigZag(v) == IF v < 0 THEN 2 * (-v) - 1 ELSE 2 * v

\* The number of 5-bit groups of a zig-zag value.
StdGroups(zz) ==
    CHOOSE n \in 1..6 : zz < 32 ^ n /\ (n = 1 \/ zz >= 32 ^ (n - 1))

\* The bytes of a signed delta in the standard format: groups of five bits,
\* least significant first, 0x20 on all but the last, 63 added to each.
StdValue(v) ==
    LET zz == StdZigZag(v)
        n == StdGroups(zz)
    IN  [i \in 1..n |->
            ((zz \div (32 ^ (i - 1))) % 32) + (IF i < n THEN 32 ELSE 0) + 63]

StdScaled(ps, i, f) == IF i = 0 THEN 0 ELSE RoundE5(ps[i][f])

RECURSIVE StdEncode(_, _)
StdEncode(ps, n) ==
    IF n = 0 THEN <<>>
    ELSE StdEncode(ps, n - 1)
            \o StdValue(StdScaled(ps, n, "lat") - StdScaled(ps, n - 1, "lat"))
            \o StdValue(StdScaled(ps, n, "lng") - StdScaled(ps, n - 1, "lng"))

\* C21: EncodePolyline emits, for each point, the latitude delta then the
\* longitude delta in the standard format; [(38.5, -120.2)] encodes to
\* "_p~iF~ps|U", "_p~iF~ps|U_ulLnnqC_mqNvxq`@" decodes to the three points of
\* the tests, the empty list encodes to "" and "" decodes to the empty list.
C21_StandardFormat ==
    /\ polyPc \in {"encoded", "decoded"} =>
        /\ encoded = StdEncode(points, Len(points))
        /\ points = SubSeq(TestPoints, 1, 1) => encoded = SinglePointString
        /\ points = <<>> => encoded = <<>>
    /\ polyPc = "parsed" =>
        /\ encoded = MultiplePointsString => decoded = TestPoints
        /\ encoded = <<>> => decoded = <<>>

\* The string of three points has been decoded.
C21_Witness ==
    /\ polyPc = "parsed"
    /\ encoded = MultiplePointsString
    /\ Len(decoded) = 3


\* The parenthetical groups of a string: an opening and a later closing
\* parenthesis.
ParenGroups(s) ==
    {g \in (1..Len(s)) \X (1..Len(s)) :
        g[1] < g[2] /\ s[g[1]] = "(" /\ s[g[2]] = ")"}

\* The string without the group g, trimmed and with its spaces collapsed;
\* the group leaves a space or nothing.
WithoutGroup(s, g) ==
    {CollapseSpaces(TrimSpace(SubSeq(s, 1, g[1] - 1) \o gap
                                  \o SubSeq(s, g[2] + 1, Len(s)))) :
        gap \in {<<>>, <<" ">>}}

\* C22: for every input, sanitizeAddress returns the input trimmed, with its
\* whitespace runs collapsed and the parenthetical group removed, and the
\* trimmed content of that group, or the empty string without a group.
C22_Sanitize ==
    ppc # "start" =>
        LET sa == sanitizeAddress(address)
            clean == CollapseSpaces(TrimSpace(address))
        IN  IF ParenGroups(clean) = {} THEN sa = <<clean, <<>>>>
            ELSE \E g \in ParenGroups(clean) :
                    /\ sa[1] \in WithoutGroup(clean, g)
                    /\ sa[2] = TrimSpace(SubSeq(clean, g[1] + 1, g[2] - 1))


\* C23: after RunWithContext has been started in one goroutine, a call of
\* Shutdown or a cancellation of the context followed by WaitForShutdown
\* terminates in every interleaving: when no goroutine can take a step, the
\* stop signal has been delivered, Run has returned and every
\* WaitForShutdown has returned.
C23_ShutdownTerminates ==
    ~(ENABLED NextServer) =>
        /\ server.stopCh = "closed"
        /\ spc["run"] = "returned"
        /\ \A c \in Clients : spc[c] = "returned"


\* C24: one invocation of HandleGeocodeAddress or of HandleReverseGeocode
\* issues at most four HTTP GET requests in total.
C24_RequestBudget == inv.effects.requests <= 4

\* C25: once the rate-limiter wait before an attempt has failed, the
\* executor fails at once: no backoff delay, no further wait, no request.
C25_WaitFailureTerminal ==
    inv.waitFailed =>
        inv.pc \notin {"backoff", "limiter", "limwait", "http", "decode"}


\* The callers running the request function for a key: the network call
\* with its retries, up to the return of the function.
InFlight(k) ==
    {c \in GCallers :
        /\ gq[c].key = k
        /\ gq[c].leader = c
        /\ gq[c].pc \in {"request", "backoff", "decode", "fnret"}}

\* C26: at most one network call, with its retries, is active for a key; the
\* entry of the key in the group exists from the arrival of the first caller
\* to the completion of the call and is then removed, so that a later request
\* starts a new call.
C26_SingleFlight ==
    \A k \in GKeys :
        /\ Cardinality(InFlight(k)) <= 1
        /\ k \in DOMAIN requestGroup <=> InFlight(k) # {}
        /\ k \in DOMAIN requestGroup => requestGroup[k] \in InFlight(k)
        /\ \A c \in GCallers :
            (gq[c].key = k /\ gq[c].pc = "wait") =>
                \/ gq[c].leader \in InFlight(k)
                \/ gq[gq[c].leader].pc = "done"

\* A call for a key has failed and returned, and a caller that came later
\* runs a new call for the same key.
C26_Witness ==
    \E c, d \in GCallers :
        /\ c # d
        /\ gq[c].key = gq[d].key
        /\ gq[c].leader = c
        /\ gq[c].pc = "done"
        /\ gq[c].result.err # NoErr
        /\ ~gq[d].early
        /\ InFlight(gq[d].key) = {d}


\* C27: every mutation of the map of a TTL cache is performed while the
\* mutating caller holds the write lock: no state has a mutation in progress
\* while the caller lacks the write lock or another caller holds the read
\* lock or the write lock.
C27_MutationUnderWriteLock ==
    \A c \in OCallers :
        ocall[c].pc \in {"delete", "write"} =>
            /\ osm.writer = c
            /\ osm.readers = {}


\* C28: the entry Get deletes as expired is the expired entry it read: a
\* fresh value stored by a Set between the read and the delete stays, and no
\* entry that has not expired is removed by a Get.
C28_LazyExpiryDeletesWhatItSaw ==
    lastOp.op = "Get" =>
        \A r \in lastOp.removed :
            /\ r = lastOp.item
            /\ Expired(r, clock)


\* C29: the Get results of a call sequence are the same whether the sweep
\* never runs or runs at arbitrary points, capacity eviction included, and
\* the sweep removes only entries whose expiration has passed.
C29_SweepNotNeeded ==
    /\ twin.matched
    /\ twin.gets[1] = twin.gets[2]
    /\ Live(twin.swept, twin.now) = Live(twin.unswept, twin.now)
    /\ \A r \in twin.removed : Expired(r, twin.now)

\* A Get finds its key in both caches after the sweep has removed entries
\* that the unswept cache still holds and after an eviction in the unswept
\* cache.
C29_Witness ==
    /\ twin.last = "Get"
    /\ twin.gets[1].found
    /\ twin.evicted
    /\ DOMAIN twin.swept # DOMAIN twin.unswept


\* C30: forward and reverse lookups never share a call in flight: a caller
\* that attached to a call in flight and was handed a value is handed a value
\* of the type its own operation produces (a list of results for
\* geocodeQuery, a single result for HandleReverseGeocode), and the key of a
\* forward lookup never equals the key of a reverse lookup.
C30_KindsNeverShare ==
    /\ \A c \in FlightCallers :
          LET call == flight.callers[c]
          IN  (/\ call.attached
               /\ call.pc \in {"returned", "done", "panic"}
               /\ ~call.got.failed)
              => call.got.type = ResultType(call.kind)
    /\ \A c, d \in FlightCallers :
          (/\ flight.callers[c].kind = "forward"
           /\ flight.callers[d].kind = "reverse"
           /\ flight.callers[d].pc # "rejected")
          => flight.callers[c].key # flight.callers[d].key

========================================================================
